---- MODULE Spec2Model ----
(***************************************************************************)
(* ClimbComp: the standings and leaderboard report of a climbing           *)
(* competition (server/sql/001_init.sql, server/src/routes/*.ts).          *)
(* The tables are sets of rows; the SQL of the stored procedure            *)
(* competition_division_podiums and of the report endpoint is translated   *)
(* clause by clause into set comprehensions.                               *)
(***************************************************************************)
EXTENDS Integers, Sequences, FiniteSets, TLC

\* ------------------------------------------------------------------ bounds
MaxUsers == 4        \* user ids 1..MaxUsers
MaxNames == 2        \* display names, as their position in collation order
MaxAttempts == 1     \* attempt counts logged: null or 1..MaxAttempts
MaxClimbers == 2     \* users of the summary inputs
MaxDivisions == 2    \* division ids 1..MaxDivisions
MaxProblems == 2     \* problem ids 1..MaxProblems
MaxRegistered == 2   \* users that register while the server runs
MaxCompetitions == 1 \* competitions created while the server runs
MaxApiDivisions == 1 \* divisions created while the server runs
MaxApiProblems == 1  \* problems created while the server runs
MaxClock == 1        \* the times 0..MaxClock
MaxSortOrder == 2    \* sort orders of the divisions: null or 1..MaxSortOrder
MaxRanked == 3       \* users of the runs that re-rank after a logged ascent
MaxRequests == 4     \* report requests the client's tab sends in a run

NULL == 0 - 1         \* SQL null of an integer column (ids, names and counts are >= 1)

UserIds == 1..MaxUsers
Names == 1..MaxNames
AttemptVals == {NULL} \cup (1..MaxAttempts)
DivisionIds == 1..MaxDivisions
ProblemIds == 1..MaxProblems

VARIABLES
  users,                    \* table users: rows [id, display_name]
  competitions,             \* table competitions: rows [id, created_by, is_public, starts_at]
  divisions,                \* table divisions: rows [id, competition_id, name, sort_order]
  problems,                 \* table problems: rows [id, competition_id, division_id]
  competition_participants, \* rows [competition_id, user_id, division_id, joined_at]
  ascents,                  \* rows [problem_id, user_id, topped, top_attempts, zone, zone_attempts]
  podiumRows,               \* [called, id, rows]: the rows the last direct call of
                            \* competition_division_podiums returned
  issued,                   \* ids given out so far, per table (uuids are never reused)
  req,                      \* the report request in flight: its position and locals
  response,                 \* what the step just taken sent to the client
  clock,                    \* the server's time (new Date())
  join,                     \* the join request in flight: its position and locals
  del,                      \* the delete-division request in flight
  tab                       \* the client's report tab: its React state and the
                            \* report requests it has sent and not yet heard of

facts == <<users, competitions, divisions, problems, competition_participants, ascents>>
\* the requests of the write handlers that take more than one step
inflight == <<join, del>>
vars == <<users, competitions, divisions, problems, competition_participants, ascents,
          podiumRows, issued, req, response, clock, join, del, tab>>

\* --------------------------------------------------------- SQL primitives
\* sum(x) over a set of rows, nulls skipped; NULL when no non-null value
RECURSIVE SumAttempts(_, _)
SumAttempts(rows, col) ==
  IF rows = {} THEN NULL
  ELSE LET r == CHOOSE x \in rows : TRUE
           rest == SumAttempts(rows \ {r}, col)
       IN IF r[col] = NULL THEN rest
          ELSE IF rest = NULL THEN r[col] ELSE r[col] + rest

Coalesce(v, d) == IF v = NULL THEN d ELSE v

\* lexicographic "sorts before" on integer tuples of equal length
LexLess(a, b) ==
  \E i \in 1..Len(a) : a[i] < b[i] /\ \A j \in 1..(i - 1) : a[j] = b[j]

\* every sequence an ORDER BY may return for the rows S under the sort keys
\* key[row]: rows with equal keys come in any order
RECURSIVE OrderBy(_, _)
OrderBy(S, key) ==
  IF S = {} THEN {<<>>}
  ELSE UNION { { <<m>> \o t : t \in OrderBy(S \ {m}, key) } :
               m \in { x \in S : \A y \in S : ~LexLess(key[y], key[x]) } }

\* ------------------------------- competition_division_podiums (001_init.sql)
division_problems(_competition_id) ==
  { [problem_id |-> p.id, division_id |-> p.division_id, division_name |-> d.name] :
      <<p, d>> \in { pd \in problems \X divisions :
                       /\ pd[2].id = pd[1].division_id
                       /\ pd[1].competition_id = _competition_id } }

\* per_user with a zero tally for every registered participant without ascent
per_user_WithRegistered(_competition_id) ==
  LET joined == { da \in division_problems(_competition_id) \X ascents :
                    da[2].problem_id = da[1].problem_id }
      groups == { <<da[1].division_id, da[1].division_name, da[2].user_id>> : da \in joined }
                \cup { <<cd[1].division_id, cd[2].name, cd[1].user_id>> :
                         cd \in { x \in competition_participants \X divisions :
                                    /\ x[1].competition_id = _competition_id
                                    /\ x[1].division_id = x[2].id } }
      rowsOf(g) == { da[2] : da \in { x \in joined :
                       <<x[1].division_id, x[1].division_name, x[2].user_id>> = g } }
  IN { [division_id |-> g[1], division_name |-> g[2], user_id |-> g[3],
        total_tops |-> Cardinality({ a \in rowsOf(g) : a.topped }),
        total_zones |-> Cardinality({ a \in rowsOf(g) : a.zone }),
        total_top_attempts |-> Coalesce(SumAttempts(rowsOf(g), "top_attempts"), 0),
        total_zone_attempts |-> Coalesce(SumAttempts(rowsOf(g), "zone_attempts"), 0)] :
       g \in groups }

\* per_user whose attempt sums take the rows with the flag set only
per_user_FlaggedAttempts(_competition_id) ==
  LET joined == { da \in division_problems(_competition_id) \X ascents :
                    da[2].problem_id = da[1].problem_id }
      groups == { <<da[1].division_id, da[1].division_name, da[2].user_id>> : da \in joined }
      rowsOf(g) == { da[2] : da \in { x \in joined :
                       <<x[1].division_id, x[1].division_name, x[2].user_id>> = g } }
  IN { [division_id |-> g[1], division_name |-> g[2], user_id |-> g[3],
        total_tops |-> Cardinality({ a \in rowsOf(g) : a.topped }),
        total_zones |-> Cardinality({ a \in rowsOf(g) : a.zone }),
        total_top_attempts |->
          Coalesce(SumAttempts({ a \in rowsOf(g) : a.topped }, "top_attempts"), 0),
        total_zone_attempts |->
          Coalesce(SumAttempts({ a \in rowsOf(g) : a.zone }, "zone_attempts"), 0)] :
       g \in groups }

per_user(_competition_id) ==
  LET joined == { da \in division_problems(_competition_id) \X ascents :
                    da[2].problem_id = da[1].problem_id }
      groups == { <<da[1].division_id, da[1].division_name, da[2].user_id>> : da \in joined }
      rowsOf(g) == { da[2] : da \in { x \in joined :
                       <<x[1].division_id, x[1].division_name, x[2].user_id>> = g } }
  IN { [division_id |-> g[1], division_name |-> g[2], user_id |-> g[3],
        total_tops |-> Cardinality({ a \in rowsOf(g) : a.topped }),
        total_zones |-> Cardinality({ a \in rowsOf(g) : a.zone }),
        total_top_attempts |-> Coalesce(SumAttempts(rowsOf(g), "top_attempts"), 0),
        total_zone_attempts |-> Coalesce(SumAttempts(rowsOf(g), "zone_attempts"), 0)] :
       g \in groups }

\* RankKey with the attempts stages descending
RankKey_AttemptsDesc(r) ==
  <<0 - r.total_tops, 0 - r.total_zones, 0 - r.total_top_attempts,
    0 - r.total_zone_attempts, r.user_display_name>>

\* the ORDER BY list of the dense_rank() window, as one tuple (desc = negated)
RankKey(r) ==
  <<0 - r.total_tops, 0 - r.total_zones, r.total_top_attempts, r.total_zone_attempts,
    r.user_display_name>>

\* DenseRank as rank(): one more than the number of rows that sort before
DenseRank_Skipping(r, partition) ==
  1 + Cardinality({ y \in partition : LexLess(RankKey(y), RankKey(r)) })

DenseRank(r, partition) ==
  1 + Cardinality({ RankKey(x) : x \in { y \in partition : LexLess(RankKey(y), RankKey(r)) } })

ranked(_competition_id) ==
  LET joined == { [competition_id |-> _competition_id,
                   user_id |-> pu[2].id, user_display_name |-> pu[2].display_name,
                   division_id |-> pu[1].division_id, division_name |-> pu[1].division_name,
                   total_tops |-> pu[1].total_tops, total_zones |-> pu[1].total_zones,
                   total_top_attempts |-> pu[1].total_top_attempts,
                   total_zone_attempts |-> pu[1].total_zone_attempts] :
                  pu \in { x \in per_user(_competition_id) \X users : x[2].id = x[1].user_id } }
  IN { [competition_id |-> r.competition_id, division_id |-> r.division_id,
        division_name |-> r.division_name, user_id |-> r.user_id,
        user_display_name |-> r.user_display_name,
        rank |-> DenseRank(r, { x \in joined : x.division_id = r.division_id }),
        total_tops |-> r.total_tops, total_zones |-> r.total_zones,
        total_top_attempts |-> r.total_top_attempts,
        total_zone_attempts |-> r.total_zone_attempts] : r \in joined }

\* PodiumOrderKey without the rank
PodiumOrderKey_NoRank(r) == <<r.division_name, r.user_display_name>>

\* order by division_name, rank, user_display_name
PodiumOrderKey(r) == <<r.division_name, r.rank, r.user_display_name>>

\* the podium cut by row count: order by ... limit _max_rank
competition_division_podiums_Limit(_competition_id, _max_rank) ==
  LET all == ranked(_competition_id)
  IN { SubSeq(s, 1, IF Len(s) < _max_rank THEN Len(s) ELSE _max_rank) :
         s \in OrderBy(all, [r \in all |-> PodiumOrderKey(r)]) }

\* the result sets the function may return: where rnk <= _max_rank, order by ...
competition_division_podiums(_competition_id, _max_rank) ==
  LET selected == { r \in ranked(_competition_id) : r.rank <= _max_rank }
  IN OrderBy(selected, [r \in selected |-> PodiumOrderKey(r)])

\* --------------------------- GET /competition/:id/summary (reports.ts)
\* problems p LEFT JOIN ascents a ON a.problem_id = p.id: a problem without
\* ascent gives one row whose ascent columns are null
LeftJoinAscents ==
  { [p |-> pa[1], a |-> pa[2], matched |-> TRUE] :
      pa \in { x \in problems \X ascents : x[2].problem_id = x[1].id } }
  \cup
  { [p |-> q, a |-> [problem_id |-> NULL, user_id |-> NULL], matched |-> FALSE] :
      q \in { x \in problems : ~\E a \in ascents : a.problem_id = x.id } }

\* a boolean column of the joined ascent is true (null is not true)
IsTrue(row, col) == row.matched /\ row.a[col]

\* participant_count as the two counts added
participant_count_Added(id, d) ==
  Cardinality({ cp \in competition_participants :
                  cp.competition_id = id /\ cp.division_id = d.id })
  + Cardinality({ pa[2].user_id : pa \in { x \in problems \X ascents :
                                    /\ x[2].problem_id = x[1].id
                                    /\ x[1].competition_id = id
                                    /\ x[1].division_id = d.id } })

participant_count(id, d) ==
  LET du == { cp.user_id : cp \in { x \in competition_participants :
                                      x.competition_id = id /\ x.division_id = d.id } }
            \cup
            { pa[2].user_id : pa \in { x \in problems \X ascents :
                                         /\ x[2].problem_id = x[1].id
                                         /\ x[1].competition_id = id
                                         /\ x[1].division_id = d.id } }
  IN Cardinality(du)

problem_count(id, d) ==
  Cardinality({ p \in problems : p.competition_id = id /\ p.division_id = d.id })

\* total_tops with the topped test in the join's ON clause
total_tops_OnClause(id, d) ==
  Cardinality({ pa \in problems \X ascents :
                  /\ pa[2].problem_id = pa[1].id /\ pa[2].topped
                  /\ pa[1].competition_id = id /\ pa[1].division_id = d.id })
  + Cardinality({ p \in problems :
                    /\ p.competition_id = id /\ p.division_id = d.id
                    /\ ~\E a \in ascents : a.problem_id = p.id /\ a.topped })

\* total_tops without the condition on a.topped: every joined row counts
total_tops_AllRows(id, d) ==
  Cardinality({ r \in LeftJoinAscents : r.p.competition_id = id /\ r.p.division_id = d.id })

total_tops(id, d) ==
  Cardinality({ r \in LeftJoinAscents :
                  r.p.competition_id = id /\ r.p.division_id = d.id /\ IsTrue(r, "topped") })

\* total_zones over every problem of the competition
total_zones_AnyDivision(id, d) ==
  Cardinality({ r \in LeftJoinAscents : r.p.competition_id = id /\ IsTrue(r, "zone") })

total_zones(id, d) ==
  Cardinality({ r \in LeftJoinAscents :
                  r.p.competition_id = id /\ r.p.division_id = d.id /\ IsTrue(r, "zone") })

SummaryRow(id, d) ==
  [division_id |-> d.id, division_name |-> d.name,
   participant_count |-> participant_count(id, d),
   problem_count |-> problem_count(id, d),
   total_tops |-> total_tops(id, d),
   total_zones |-> total_zones(id, d)]

\* the decimal text of a bigint, as the digits from the left
RECURSIVE Int8Text(_)
Int8Text(n) == IF n < 10 THEN <<n>> ELSE Int8Text(n \div 10) \o <<n % 10>>

\* a value as the handler holds it: a JS string with its text, a JS number
JsString(t) == [type |-> "string", text |-> t]
JsNumber(n) == [type |-> "number", value |-> n]

\* a summary row as pool.query hands it over: COUNT is a bigint, COALESCE of a
\* bigint and 0 is a bigint, and the driver gives a bigint as its text
PgSummaryRow(r) ==
  [division_id |-> r.division_id, division_name |-> r.division_name,
   participant_count |-> JsString(Int8Text(r.participant_count)),
   problem_count |-> JsString(Int8Text(r.problem_count)),
   total_tops |-> JsString(Int8Text(r.total_tops)),
   total_zones |-> JsString(Int8Text(r.total_zones))]

\* DivisionOrderKey with the null sort orders first
DivisionOrderKey_NullsFirst(d) ==
  <<IF d.sort_order = NULL THEN 0 ELSE 1, IF d.sort_order = NULL THEN 0 ELSE d.sort_order,
    d.name>>

\* ORDER BY d.sort_order NULLS LAST, d.name
DivisionOrderKey(d) ==
  <<IF d.sort_order = NULL THEN 1 ELSE 0, IF d.sort_order = NULL THEN 0 ELSE d.sort_order,
    d.name>>

\* SummaryQuery whose filter replaces the competition condition
SummaryQuery_FilterOnly(id, division_id) ==
  LET ds == { d \in divisions :
                IF division_id # NULL THEN d.id = division_id ELSE d.competition_id = id }
  IN { [i \in DOMAIN s |-> PgSummaryRow(SummaryRow(id, s[i]))] :
         s \in OrderBy(ds, [d \in ds |-> DivisionOrderKey(d)]) }

\* the row sequences summarySql may return; division_id = NULL: no filter
SummaryQuery(id, division_id) ==
  LET ds == { d \in divisions :
                /\ d.competition_id = id
                /\ (division_id # NULL => d.id = division_id) }
  IN { [i \in DOMAIN s |-> PgSummaryRow(SummaryRow(id, s[i]))] :
         s \in OrderBy(ds, [d \in ds |-> DivisionOrderKey(d)]) }

\* SELECT * FROM competition_division_podiums($1, 3) [WHERE division_id = $2]
PodiumQuery(id, division_id) ==
  LET Keep(r) == division_id # NULL => r.division_id = division_id
  IN { SelectSeq(s, Keep) : s \in competition_division_podiums(id, 3) }

PodiumEntry(p) ==
  [user_id |-> p.user_id, user_display_name |-> p.user_display_name, rank |-> p.rank,
   total_tops |-> p.total_tops, total_zones |-> p.total_zones,
   total_top_attempts |-> p.total_top_attempts,
   total_zone_attempts |-> p.total_zone_attempts]

\* summaries.map(s => ({...s, podium: podiumRows.filter(...).map(...)}))
Combine(summaries, rows) ==
  [i \in DOMAIN summaries |->
     LET s == summaries[i]
         OfDivision(p) == p.division_id = s.division_id
         mine == SelectSeq(rows, OfDivision)
     IN [division_id |-> s.division_id, division_name |-> s.division_name,
         participant_count |-> s.participant_count, problem_count |-> s.problem_count,
         total_tops |-> s.total_tops, total_zones |-> s.total_zones,
         podium |-> [j \in DOMAIN mine |-> PodiumEntry(mine[j])]]]

Idle == [pc |-> "idle", id |-> NULL, division_id |-> NULL, summaries |-> <<>>]
NoResponse == [status |-> 0, competition |-> NULL, divisions |-> <<>>]

\* no join request, no delete-division request in flight
JoinIdle == [pc |-> "idle", user |-> NULL, id |-> NULL, division_id |-> NULL]
DelIdle == [pc |-> "idle", user |-> NULL, id |-> NULL, division_id |-> NULL]

\* useState<CompetitionReport | null>(null): no report held yet
NoReport == [competition |-> NULL, divisions |-> <<>>]
\* the report tab after its first render: the useState initial values, no
\* request sent yet. pending holds the requests sent and not yet settled, each
\* with its number n and the filter it was sent for; sent counts the requests,
\* shown is the number of the request whose response report holds (0: none)
TabInitial ==
  [selectedDivisionId |-> NULL, loading |-> FALSE, error |-> NULL, report |-> NoReport,
   pending |-> {}, sent |-> 0, shown |-> 0]

\* ReportFindCompetition without the existence check
ReportFindCompetition_NoCheck(id, division_id) ==
  /\ req.pc = "idle"
  /\ req' = [pc |-> "found", id |-> id, division_id |-> division_id, summaries |-> <<>>]
  /\ response' = NoResponse
  /\ UNCHANGED <<facts, podiumRows, issued, clock, inflight, tab>>

\* 1) SELECT id, title FROM competitions WHERE id = $1; 404 when there is none
ReportFindCompetition(id, division_id) ==
  /\ req.pc = "idle"
  /\ IF \E c \in competitions : c.id = id
       THEN /\ req' = [pc |-> "found", id |-> id, division_id |-> division_id,
                       summaries |-> <<>>]
            /\ response' = NoResponse
       ELSE /\ req' = Idle
            /\ response' = [status |-> 404, competition |-> NULL, divisions |-> <<>>]
  /\ UNCHANGED <<facts, podiumRows, issued, clock, inflight, tab>>

\* 2) the division summaries
ReportSummaries ==
  /\ req.pc = "found"
  /\ \E s \in SummaryQuery(req.id, req.division_id) :
       req' = [req EXCEPT !.pc = "summarised", !.summaries = s]
  /\ response' = NoResponse
  /\ UNCHANGED <<facts, podiumRows, issued, clock, inflight, tab>>

\* ReportPodiums that also keeps the podium rows it computed
ReportPodiums_Stored ==
  /\ req.pc = "summarised"
  /\ \E rows \in PodiumQuery(req.id, req.division_id) :
       /\ response' = [status |-> 200, competition |-> req.id,
                       divisions |-> Combine(req.summaries, rows)]
       /\ podiumRows' = [called |-> TRUE, id |-> req.id, rows |-> rows]
  /\ req' = Idle
  /\ UNCHANGED <<facts, issued, clock, inflight, tab>>

\* 3) the podium rows, 4) the combined report
ReportPodiums ==
  /\ req.pc = "summarised"
  /\ \E rows \in PodiumQuery(req.id, req.division_id) :
       response' = [status |-> 200, competition |-> req.id,
                    divisions |-> Combine(req.summaries, rows)]
  /\ req' = Idle
  /\ UNCHANGED <<facts, podiumRows, issued, clock, inflight, tab>>

\* ------------------------------------------------ the ranking in isolation
\* The stored procedure is a function of the tables. Its inputs are drawn in
\* the initial state: one competition with one division and one problem, every
\* user registered under some display name, and any ascent table. User ids are
\* opaque uuids that no query orders by, so the inputs are drawn up to a
\* renaming of the users: profiles (display name, ascent) come in
\* non-decreasing order of user id.
AscentVals ==
  [topped : BOOLEAN, top_attempts : AttemptVals, zone : BOOLEAN, zone_attempts : AttemptVals]

AscentRow(p, u, v) ==
  [problem_id |-> p, user_id |-> u, topped |-> v.topped, top_attempts |-> v.top_attempts,
   zone |-> v.zone, zone_attempts |-> v.zone_attempts]

Profiles == [display_name : Names, logged : BOOLEAN, ascent : AscentVals]

ProfileKey(q) ==
  <<q.display_name, IF q.logged THEN 1 ELSE 0, IF q.ascent.topped THEN 1 ELSE 0,
    IF q.ascent.zone THEN 1 ELSE 0, q.ascent.top_attempts, q.ascent.zone_attempts>>

\* a user without ascent has one profile per display name
ProfileSet ==
  { q \in Profiles :
      q.logged \/ q.ascent = [topped |-> FALSE, top_attempts |-> NULL,
                              zone |-> FALSE, zone_attempts |-> NULL] }

InitRank ==
  /\ competitions = { [id |-> 1, created_by |-> 1, is_public |-> TRUE, starts_at |-> NULL] }
  /\ divisions = { [id |-> 1, competition_id |-> 1, name |-> 1, sort_order |-> NULL] }
  /\ problems = { [id |-> 1, competition_id |-> 1, division_id |-> 1] }
  /\ competition_participants = {}
  /\ \E s \in [UserIds -> ProfileSet] :
       /\ \A u \in UserIds :
            IF u = 1 THEN TRUE ELSE ~LexLess(ProfileKey(s[u]), ProfileKey(s[u - 1]))
       /\ users = { [id |-> u, display_name |-> s[u].display_name] : u \in UserIds }
       /\ ascents = { AscentRow(1, u, s[u].ascent) : u \in { x \in UserIds : s[x].logged } }
  /\ podiumRows = [called |-> FALSE, id |-> NULL, rows |-> <<>>]
  /\ issued = [competitions |-> 1, divisions |-> MaxDivisions, problems |-> MaxProblems]
  /\ req = Idle
  /\ response = NoResponse
  /\ clock = 0
  /\ join = JoinIdle
  /\ del = DelIdle
  /\ tab = TabInitial

\* SELECT * FROM competition_division_podiums($1, 3)
CallPodiums(id) ==
  /\ \E rows \in competition_division_podiums(id, 3) :
       podiumRows' = [called |-> TRUE, id |-> id, rows |-> rows]
  /\ UNCHANGED <<facts, issued, req, response, clock, inflight, tab>>

NextRank == \E c \in competitions : CallPodiums(c.id)

SpecRank == InitRank /\ [][NextRank]_vars

\* ------------------------------------------------- the report as a function
\* The report is a function of the tables. Its inputs are drawn in the initial
\* state: one competition with MaxDivisions divisions, problems assigned to a
\* division or to none, users who joined a division, joined without division or
\* did not join, and ascents with any topped / zone flags (no attempt counts).
FlagVals == { v \in AscentVals : v.top_attempts = NULL /\ v.zone_attempts = NULL }

InitSummary ==
  /\ users = { [id |-> u, display_name |-> 1] : u \in 1..MaxClimbers }
  /\ competitions = { [id |-> 1, created_by |-> 1, is_public |-> TRUE, starts_at |-> NULL] }
  /\ divisions = { [id |-> d, competition_id |-> 1, name |-> d, sort_order |-> NULL] :
                     d \in DivisionIds }
  /\ \E g \in [ProblemIds -> DivisionIds \cup {NULL}] :
       problems = { [id |-> p, competition_id |-> 1, division_id |-> g[p]] : p \in ProblemIds }
  /\ \E J \in SUBSET (1..MaxClimbers) : \E h \in [J -> DivisionIds \cup {NULL}] :
       competition_participants =
         { [competition_id |-> 1, user_id |-> u, division_id |-> h[u], joined_at |-> 0] :
             u \in J }
  /\ \E L \in SUBSET (ProblemIds \X (1..MaxClimbers)) : \E f \in [L -> FlagVals] :
       ascents = { AscentRow(l[1], l[2], f[l]) : l \in L }
  /\ podiumRows = [called |-> FALSE, id |-> NULL, rows |-> <<>>]
  /\ issued = [competitions |-> 1, divisions |-> MaxDivisions, problems |-> MaxProblems]
  /\ req = Idle
  /\ response = NoResponse
  /\ clock = 0
  /\ join = JoinIdle
  /\ del = DelIdle
  /\ tab = TabInitial

NextSummary ==
  \/ \E id \in 1..2 : ReportFindCompetition(id, NULL)
  \/ ReportSummaries
  \/ ReportPodiums

SpecSummary == InitSummary /\ [][NextSummary]_vars

\* ------------------------------------------- the report request in isolation
\* ReportQueryFails that falls back to the summaries when the podium query fails
ReportQueryFails_Partial ==
  /\ req' = Idle
  /\ response' = IF req.pc = "summarised"
                   THEN [status |-> 200, competition |-> req.id,
                         divisions |-> Combine(req.summaries, <<>>)]
                   ELSE [status |-> 500, competition |-> NULL, divisions |-> <<>>]
  /\ UNCHANGED <<facts, podiumRows, issued, clock, inflight, tab>>

\* a query of the request in flight, or the first query of a new request,
\* rejects: the catch block passes the error on and express answers 500
ReportQueryFails ==
  /\ req' = Idle
  /\ response' = [status |-> 500, competition |-> NULL, divisions |-> <<>>]
  /\ UNCHANGED <<facts, podiumRows, issued, clock, inflight, tab>>

\* The facts are drawn in the initial state: two competitions, MaxDivisions
\* divisions, each in one of them under a name unique there and with any sort
\* order, one problem per division, ascents of any users on any problems, and
\* possibly a registration. The requests name any competition id (the last one
\* is the id of no competition) and any division filter.
ReportCompetitionIds == 1..2
SortOrders == {NULL} \cup (1..MaxSortOrder)
DivisionOfProblem(p) == ((p - 1) % MaxDivisions) + 1
ToppedAndZoned == [topped |-> TRUE, top_attempts |-> NULL, zone |-> TRUE, zone_attempts |-> NULL]

InitReport ==
  /\ users = { [id |-> u, display_name |-> u] : u \in 1..MaxClimbers }
  /\ competitions = { [id |-> c, created_by |-> 1, is_public |-> TRUE, starts_at |-> NULL] :
                        c \in ReportCompetitionIds }
  /\ \E g \in [DivisionIds -> ReportCompetitionIds], n \in [DivisionIds -> Names],
        o \in [DivisionIds -> SortOrders] :
       /\ \A d1, d2 \in DivisionIds : (d1 # d2 /\ g[d1] = g[d2]) => n[d1] # n[d2]
       /\ divisions = { [id |-> d, competition_id |-> g[d], name |-> n[d],
                         sort_order |-> o[d]] : d \in DivisionIds }
       /\ problems = { [id |-> p, competition_id |-> g[DivisionOfProblem(p)],
                        division_id |-> DivisionOfProblem(p)] : p \in ProblemIds }
       /\ \E d \in DivisionIds \cup {NULL} :
            competition_participants =
              IF d = NULL THEN {}
              ELSE { [competition_id |-> g[d], user_id |-> 1, division_id |-> d,
                      joined_at |-> 0] }
  /\ \E L \in SUBSET (ProblemIds \X (1..MaxClimbers)) :
       ascents = { AscentRow(l[1], l[2], ToppedAndZoned) : l \in L }
  /\ podiumRows = [called |-> FALSE, id |-> NULL, rows |-> <<>>]
  /\ issued = [competitions |-> 2, divisions |-> MaxDivisions, problems |-> MaxProblems]
  /\ req = Idle
  /\ response = NoResponse
  /\ clock = 0
  /\ join = JoinIdle
  /\ del = DelIdle
  /\ tab = TabInitial

NextReport ==
  \/ \E id \in ReportCompetitionIds \cup {3}, d \in DivisionIds \cup {NULL, MaxDivisions + 1} :
        ReportFindCompetition(id, d)
  \/ ReportSummaries
  \/ ReportPodiums
  \/ ReportQueryFails

SpecReport == InitReport /\ [][NextReport]_vars

\* ------------------------------------------------------ the running server
\* The tables start empty. A request of user u (NULL: no valid token) takes
\* effect in one step, at its writing statement, when the foreign keys make
\* that statement fail once a row the handler checked before has gone. Two
\* handlers check something no constraint protects and take two steps: join
\* (is_public, starts_at against the time) and delete division (the participant
\* count). The report request reads in three statements. Any request may run
\* between the steps of another.
Init ==
  /\ users = {}
  /\ competitions = {}
  /\ divisions = {}
  /\ problems = {}
  /\ competition_participants = {}
  /\ ascents = {}
  /\ podiumRows = [called |-> FALSE, id |-> NULL, rows |-> <<>>]
  /\ issued = [competitions |-> 0, divisions |-> 0, problems |-> 0]
  /\ req = Idle
  /\ response = NoResponse
  /\ clock = 0
  /\ join = JoinIdle
  /\ del = DelIdle
  /\ tab = TabInitial

\* res.status(status): the reply of a handler that sends no report
Reply(status) == response' = [status |-> status, competition |-> NULL, divisions |-> <<>>]

\* comp.created_by !== req.user.id
Owns(u, id) == \E c \in competitions : c.id = id /\ c.created_by = u

\* SELECT id FROM divisions WHERE id = $1 AND competition_id = $2
DivisionOf(division_id, id) ==
  \E d \in divisions : d.id = division_id /\ d.competition_id = id

\* POST /api/auth/register
Register(display_name) ==
  /\ Cardinality(users) < MaxRegistered
  /\ users' = users \cup { [id |-> Cardinality(users) + 1, display_name |-> display_name] }
  /\ Reply(201)
  /\ UNCHANGED <<competitions, divisions, problems, competition_participants, ascents,
                 podiumRows, issued, req, clock, inflight, tab>>

\* POST /api/competitions: is_public and starts_at take their defaults
CreateCompetition(u) ==
  /\ issued.competitions < MaxCompetitions
  /\ IF u = NULL
       THEN Reply(401) /\ UNCHANGED <<competitions, issued>>
       ELSE /\ competitions' = competitions \cup
                 { [id |-> issued.competitions + 1, created_by |-> u,
                    is_public |-> TRUE, starts_at |-> NULL] }
            /\ issued' = [issued EXCEPT !.competitions = @ + 1]
            /\ Reply(201)
  /\ UNCHANGED <<users, divisions, problems, competition_participants, ascents,
                 podiumRows, req, clock, inflight, tab>>

\* PUT /api/competitions/:id; fields: the columns the body names, with values
UpdateCompetition(u, id, fields) ==
  /\ IF u = NULL
       THEN Reply(401) /\ UNCHANGED competitions
       ELSE IF DOMAIN fields = {}
       THEN Reply(400) /\ UNCHANGED competitions
       ELSE IF ~Owns(u, id)
       THEN Reply(404) /\ UNCHANGED competitions
       ELSE /\ competitions' =
                 { IF c.id = id
                     THEN [col \in DOMAIN c |->
                             IF col \in DOMAIN fields THEN fields[col] ELSE c[col]]
                     ELSE c : c \in competitions }
            /\ Reply(200)
  /\ UNCHANGED <<users, divisions, problems, competition_participants, ascents,
                 podiumRows, issued, req, clock, inflight, tab>>

\* DELETE /api/competitions/:id; the rows of the competition go by ON DELETE CASCADE
DeleteCompetition(u, id) ==
  /\ IF u = NULL \/ ~Owns(u, id)
       THEN /\ Reply(IF u = NULL THEN 401 ELSE 404)
            /\ UNCHANGED <<competitions, divisions, competition_participants, problems,
                           ascents>>
       ELSE /\ competitions' = { c \in competitions : c.id # id }
            /\ divisions' = { d \in divisions : d.competition_id # id }
            /\ competition_participants' =
                 { cp \in competition_participants : cp.competition_id # id }
            /\ problems' = { p \in problems : p.competition_id # id }
            /\ ascents' = { a \in ascents :
                              \E p \in problems : p.id = a.problem_id /\ p.competition_id # id }
            /\ Reply(204)
  /\ UNCHANGED <<users, podiumRows, issued, req, clock, inflight, tab>>

\* the status POST /api/competitions/:id/divisions answers with; name = NULL:
\* missing or blank
CreateDivisionStatus(u, id, name) ==
  IF u = NULL THEN 401
  ELSE IF name = NULL THEN 400
  ELSE IF ~\E c \in competitions : c.id = id THEN 404
  ELSE IF ~Owns(u, id) THEN 403
  ELSE IF \E d \in divisions : d.competition_id = id /\ d.name = name THEN 500
  ELSE 201

\* POST /api/competitions/:id/divisions
CreateDivision(u, id, name, sort_order) ==
  /\ IF CreateDivisionStatus(u, id, name) = 201
       THEN /\ issued.divisions < MaxApiDivisions
            /\ divisions' = divisions \cup
                 { [id |-> issued.divisions + 1, competition_id |-> id, name |-> name,
                    sort_order |-> sort_order] }
            /\ issued' = [issued EXCEPT !.divisions = @ + 1]
       ELSE UNCHANGED <<divisions, issued>>
  /\ Reply(CreateDivisionStatus(u, id, name))
  /\ UNCHANGED <<users, competitions, problems, competition_participants, ascents,
                 podiumRows, req, clock, inflight, tab>>

\* the status the checks of DELETE /api/competitions/:id/divisions/:divisionId
\* end with; 0: all passed
DeleteDivisionStatus(u, id, divisionId) ==
  IF u = NULL THEN 401
  ELSE IF ~\E c \in competitions : c.id = id THEN 404
  ELSE IF ~Owns(u, id) THEN 403
  ELSE IF ~DivisionOf(divisionId, id) THEN 404
  ELSE IF \E cp \in competition_participants :
            cp.competition_id = id /\ cp.division_id = divisionId THEN 400
  ELSE 0

\* DELETE division, the checks up to SELECT COUNT(*) FROM competition_participants
DeleteDivisionCheck(u, id, divisionId) ==
  /\ del.pc = "idle"
  /\ IF DeleteDivisionStatus(u, id, divisionId) = 0
       THEN /\ del' = [pc |-> "counted", user |-> u, id |-> id, division_id |-> divisionId]
            /\ response' = NoResponse
       ELSE /\ del' = DelIdle
            /\ Reply(DeleteDivisionStatus(u, id, divisionId))
  /\ UNCHANGED <<facts, podiumRows, issued, req, clock, join, tab>>

\* DeleteDivisionDelete whose delete takes the division's problems and their
\* ascents along (ON DELETE CASCADE on problems.division_id)
DeleteDivisionDelete_Cascade ==
  /\ del.pc = "counted"
  /\ LET gone == { d \in divisions : d.id = del.division_id /\ d.competition_id = del.id }
         Cleared(r) == IF \E d \in gone : d.id = r.division_id
                         THEN [r EXCEPT !.division_id = NULL] ELSE r
     IN /\ divisions' = divisions \ gone
        /\ problems' = { p \in problems : ~\E d \in gone : d.id = p.division_id }
        /\ ascents' = { a \in ascents :
                          ~\E p \in problems : p.id = a.problem_id
                                               /\ \E d \in gone : d.id = p.division_id }
        /\ competition_participants' = { Cleared(cp) : cp \in competition_participants }
  /\ del' = DelIdle
  /\ Reply(204)
  /\ UNCHANGED <<users, competitions, podiumRows, issued, req, clock, join, tab>>

\* DELETE FROM divisions WHERE id = $1 AND competition_id = $2; the references
\* to the division are set to null (ON DELETE SET NULL)
DeleteDivisionDelete ==
  /\ del.pc = "counted"
  /\ LET gone == { d \in divisions : d.id = del.division_id /\ d.competition_id = del.id }
         Cleared(r) == IF \E d \in gone : d.id = r.division_id
                         THEN [r EXCEPT !.division_id = NULL] ELSE r
     IN /\ divisions' = divisions \ gone
        /\ problems' = { Cleared(p) : p \in problems }
        /\ competition_participants' = { Cleared(cp) : cp \in competition_participants }
  /\ del' = DelIdle
  /\ Reply(204)
  /\ UNCHANGED <<users, competitions, ascents, podiumRows, issued, req, clock, join, tab>>

\* the status the checks of POST /api/competitions/:id/join end with; 0: all
\* passed; division_id = NULL: none supplied
JoinStatus(u, id, division_id) ==
  IF u = NULL THEN 401
  ELSE IF ~\E c \in competitions : c.id = id THEN 404
  ELSE LET comp == CHOOSE c \in competitions : c.id = id
       IN IF ~comp.is_public THEN 403
          ELSE IF comp.starts_at # NULL /\ comp.starts_at <= clock THEN 403
          ELSE IF division_id # NULL /\ ~DivisionOf(division_id, id) THEN 400
          ELSE 0

\* POST join, the checks
JoinCheck(u, id, division_id) ==
  /\ join.pc = "idle"
  /\ IF JoinStatus(u, id, division_id) = 0
       THEN /\ join' = [pc |-> "checked", user |-> u, id |-> id, division_id |-> division_id]
            /\ response' = NoResponse
       ELSE /\ join' = JoinIdle
            /\ Reply(JoinStatus(u, id, division_id))
  /\ UNCHANGED <<facts, podiumRows, issued, req, clock, del, tab>>

\* JoinUpsert as a plain insert of a row (no conflict target)
JoinUpsert_Insert ==
  /\ join.pc = "checked"
  /\ IF /\ \E c \in competitions : c.id = join.id
        /\ join.division_id # NULL => \E d \in divisions : d.id = join.division_id
       THEN /\ competition_participants' = competition_participants
                 \cup { [competition_id |-> join.id, user_id |-> join.user,
                         division_id |-> join.division_id, joined_at |-> clock] }
            /\ Reply(201)
       ELSE /\ UNCHANGED competition_participants
            /\ Reply(500)
  /\ join' = JoinIdle
  /\ UNCHANGED <<users, competitions, divisions, problems, ascents, podiumRows, issued,
                 req, clock, del, tab>>

\* INSERT INTO competition_participants ... ON CONFLICT (competition_id, user_id)
\* DO UPDATE SET division_id = EXCLUDED.division_id, joined_at = now(); the
\* statement fails when a referenced row has gone
JoinUpsert ==
  /\ join.pc = "checked"
  /\ IF /\ \E c \in competitions : c.id = join.id
        /\ join.division_id # NULL => \E d \in divisions : d.id = join.division_id
       THEN /\ competition_participants' =
                 { cp \in competition_participants :
                     ~(cp.competition_id = join.id /\ cp.user_id = join.user) }
                 \cup { [competition_id |-> join.id, user_id |-> join.user,
                         division_id |-> join.division_id, joined_at |-> clock] }
            /\ Reply(201)
       ELSE /\ UNCHANGED competition_participants
            /\ Reply(500)
  /\ join' = JoinIdle
  /\ UNCHANGED <<users, competitions, divisions, problems, ascents, podiumRows, issued,
                 req, clock, del, tab>>

\* CreateProblemStatus without the comparison of created_by with the user
CreateProblemStatus_AnyUser(u, id, division_id, valid) ==
  IF u = NULL THEN 401
  ELSE IF ~valid THEN 400
  ELSE IF ~\E c \in competitions : c.id = id THEN 404
  ELSE IF division_id # NULL /\ ~DivisionOf(division_id, id) THEN 400
  ELSE 201

\* CreateProblemStatus without the check that the division is the competition's
CreateProblemStatus_AnyDivision(u, id, division_id, valid) ==
  IF u = NULL THEN 401
  ELSE IF ~valid THEN 400
  ELSE IF ~\E c \in competitions : c.id = id THEN 404
  ELSE IF ~Owns(u, id) THEN 403
  ELSE IF division_id # NULL /\ ~\E d \in divisions : d.id = division_id THEN 500
  ELSE 201

\* the status POST /api/competitions/:id/problems answers with; valid: the
\* body has a code and a discipline that are not blank
CreateProblemStatus(u, id, division_id, valid) ==
  IF u = NULL THEN 401
  ELSE IF ~valid THEN 400
  ELSE IF ~\E c \in competitions : c.id = id THEN 404
  ELSE IF ~Owns(u, id) THEN 403
  ELSE IF division_id # NULL /\ ~DivisionOf(division_id, id) THEN 400
  ELSE 201

\* POST /api/competitions/:id/problems
CreateProblem(u, id, division_id, valid) ==
  /\ IF CreateProblemStatus(u, id, division_id, valid) = 201
       THEN /\ issued.problems < MaxApiProblems
            /\ problems' = problems \cup
                 { [id |-> issued.problems + 1, competition_id |-> id,
                    division_id |-> division_id] }
            /\ issued' = [issued EXCEPT !.problems = @ + 1]
       ELSE UNCHANGED <<problems, issued>>
  /\ Reply(CreateProblemStatus(u, id, division_id, valid))
  /\ UNCHANGED <<users, competitions, divisions, competition_participants, ascents,
                 podiumRows, req, clock, inflight, tab>>

\* the status DELETE /api/problems/:id answers with
DeleteProblemStatus(u, id) ==
  IF u = NULL THEN 401
  ELSE IF ~\E p \in problems : p.id = id /\ \E c \in competitions : c.id = p.competition_id
  THEN 404
  ELSE IF ~\E p \in problems : p.id = id /\ Owns(u, p.competition_id) THEN 403
  ELSE 204

\* DELETE /api/problems/:id: the ascents of the problem, then the problem
DeleteProblem(u, id) ==
  /\ IF DeleteProblemStatus(u, id) = 204
       THEN /\ ascents' = { a \in ascents : a.problem_id # id }
            /\ problems' = { p \in problems : p.id # id }
       ELSE UNCHANGED <<ascents, problems>>
  /\ Reply(DeleteProblemStatus(u, id))
  /\ UNCHANGED <<users, competitions, divisions, competition_participants,
                 podiumRows, issued, req, clock, inflight, tab>>

\* the columns the upsert stores for a body: COALESCE($3, false), $4 (?? null)
Stored(body) ==
  [topped |-> IF "topped" \in DOMAIN body THEN body.topped ELSE FALSE,
   top_attempts |-> IF "top_attempts" \in DOMAIN body THEN body.top_attempts ELSE NULL,
   zone |-> IF "zone" \in DOMAIN body THEN body.zone ELSE FALSE,
   zone_attempts |-> IF "zone_attempts" \in DOMAIN body THEN body.zone_attempts ELSE NULL]

\* LogAscent whose update keeps a top or zone once logged
LogAscent_KeepTop(u, problemId, body) ==
  /\ IF u = NULL \/ ~\E p \in problems : p.id = problemId
       THEN /\ UNCHANGED ascents
            /\ Reply(IF u = NULL THEN 401 ELSE 404)
       ELSE /\ LET old == { a \in ascents : a.problem_id = problemId /\ a.user_id = u }
                   new == AscentRow(problemId, u, Stored(body))
               IN ascents' = (ascents \ old) \cup
                    { [new EXCEPT !.topped = @ \/ \E a \in old : a.topped,
                                  !.zone = @ \/ \E a \in old : a.zone] }
            /\ Reply(200)
  /\ UNCHANGED <<users, competitions, divisions, problems, competition_participants,
                 podiumRows, issued, req, clock, inflight, tab>>

\* POST /api/problems/:id/ascents: insert, or replace the row of (problem, user)
LogAscent(u, problemId, body) ==
  /\ IF u = NULL \/ ~\E p \in problems : p.id = problemId
       THEN /\ UNCHANGED ascents
            /\ Reply(IF u = NULL THEN 401 ELSE 404)
       ELSE /\ ascents' = { a \in ascents : ~(a.problem_id = problemId /\ a.user_id = u) }
                          \cup { AscentRow(problemId, u, Stored(body)) }
            /\ Reply(200)
  /\ UNCHANGED <<users, competitions, divisions, problems, competition_participants,
                 podiumRows, issued, req, clock, inflight, tab>>

\* time passes
Tick ==
  /\ clock < MaxClock
  /\ clock' = clock + 1
  /\ response' = NoResponse
  /\ UNCHANGED <<facts, podiumRows, issued, req, inflight, tab>>

\* the division ids and names of the requests
ApiDivisionIds == 1..MaxApiDivisions

\* the ids of the registered users: the requests carry a token of one of them
SignedIn == { x.id : x \in users }

\* no write request is between its two steps
Settled == join.pc = "idle" /\ del.pc = "idle"

\* The report request interleaved with the write requests. A write request of
\* two steps runs its steps one after the other here (its first step only
\* reads, as the report's steps do); SpecJoin interleaves the write requests
\* with each other.
Next ==
  \/ /\ Settled
     /\ \/ \E n \in Names : Register(n)
        \/ \E u \in SignedIn : CreateCompetition(u)
        \/ \E u \in SignedIn, c \in competitions : DeleteCompetition(u, c.id)
        \/ \E u \in SignedIn, c \in competitions, n \in ApiDivisionIds :
              CreateDivision(u, c.id, n, NULL)
        \/ \E u \in SignedIn, d \in divisions : DeleteDivisionCheck(u, d.competition_id, d.id)
        \/ \E u \in SignedIn, c \in competitions, d \in ApiDivisionIds \cup {NULL} :
              JoinCheck(u, c.id, d)
        \/ \E u \in SignedIn, c \in competitions, d \in ApiDivisionIds \cup {NULL} :
              CreateProblem(u, c.id, d, TRUE)
        \/ \E u \in SignedIn, p \in problems : DeleteProblem(u, p.id)
        \/ \E u \in SignedIn, p \in problems, v \in FlagVals : LogAscent(u, p.id, v)
        \/ \E id \in 1..(MaxCompetitions + 1), d \in ApiDivisionIds \cup {NULL} :
              ReportFindCompetition(id, d)
        \/ ReportSummaries
        \/ ReportPodiums
  \/ DeleteDivisionDelete
  \/ JoinUpsert

Spec == Init /\ [][Next]_vars

\* ------------------------------------------------ ascent logging in isolation
\* a body field that may be absent
Opt(name, present, value) == IF present THEN name :> value ELSE <<>>

\* the request bodies: topped and zone absent, true or false; an attempt count
\* absent (null is stored for it as for an explicit null) or a number
AscentBodies ==
  { Opt("topped", pt, t) @@ Opt("top_attempts", pa, ta)
      @@ Opt("zone", pz, z) @@ Opt("zone_attempts", pza, za) :
      pt \in BOOLEAN, t \in BOOLEAN, pa \in BOOLEAN, ta \in 1..MaxAttempts,
      pz \in BOOLEAN, z \in BOOLEAN, pza \in BOOLEAN, za \in 1..MaxAttempts }

\* One competition with one division and one problem in it, two registered
\* users, no ascent yet. The users, or a client without token, log ascents on
\* the problem or on an id that is no problem's.
InitAscent ==
  /\ users = { [id |-> u, display_name |-> u] : u \in 1..MaxClimbers }
  /\ competitions = { [id |-> 1, created_by |-> 1, is_public |-> TRUE, starts_at |-> NULL] }
  /\ divisions = { [id |-> 1, competition_id |-> 1, name |-> 1, sort_order |-> NULL] }
  /\ problems = { [id |-> 1, competition_id |-> 1, division_id |-> 1] }
  /\ competition_participants = {}
  /\ ascents = {}
  /\ podiumRows = [called |-> FALSE, id |-> NULL, rows |-> <<>>]
  /\ issued = [competitions |-> 1, divisions |-> 1, problems |-> 1]
  /\ req = Idle
  /\ response = NoResponse
  /\ clock = 0
  /\ join = JoinIdle
  /\ del = DelIdle
  /\ tab = TabInitial

\* the requests that are rejected are shown with the empty body
NextAscent ==
  \/ \E u \in SignedIn, p \in problems, body \in AscentBodies : LogAscent(u, p.id, body)
  \/ \E u \in SignedIn \cup {NULL}, p \in 1..(MaxApiProblems + 1) : LogAscent(u, p, <<>>)

SpecAscent == InitAscent /\ [][NextAscent]_vars

\* ------------------------------------------------ registration in isolation
\* the bodies of PUT /api/competitions/:id: any of is_public and starts_at
CompetitionFields ==
  { Opt("is_public", pp, v) @@ Opt("starts_at", ps, t) :
      pp \in BOOLEAN, v \in BOOLEAN, ps \in BOOLEAN, t \in {NULL} \cup (1..MaxClock) }

\* One public competition of user 1 without start time, with MaxDivisions
\* divisions, two registered users, nobody joined. The users, or a client
\* without token, join; the creator deletes divisions, edits and deletes the
\* competition; time passes. The requests run interleaved.
InitJoin ==
  /\ users = { [id |-> u, display_name |-> u] : u \in 1..MaxClimbers }
  /\ competitions = { [id |-> 1, created_by |-> 1, is_public |-> TRUE, starts_at |-> NULL] }
  /\ divisions = { [id |-> d, competition_id |-> 1, name |-> d, sort_order |-> NULL] :
                     d \in DivisionIds }
  /\ problems = {}
  /\ competition_participants = {}
  /\ ascents = {}
  /\ podiumRows = [called |-> FALSE, id |-> NULL, rows |-> <<>>]
  /\ issued = [competitions |-> 1, divisions |-> MaxDivisions, problems |-> 0]
  /\ req = Idle
  /\ response = NoResponse
  /\ clock = 0
  /\ join = JoinIdle
  /\ del = DelIdle
  /\ tab = TabInitial

NextJoin ==
  \/ \E u \in SignedIn \cup {NULL}, id \in 1..2, d \in DivisionIds \cup {NULL, MaxDivisions + 1} :
        JoinCheck(u, id, d)
  \/ JoinUpsert
  \/ \E u \in SignedIn, c \in competitions, d \in DivisionIds : DeleteDivisionCheck(u, c.id, d)
  \/ DeleteDivisionDelete
  \/ \E c \in competitions, f \in CompetitionFields : UpdateCompetition(c.created_by, c.id, f)
  \/ \E c \in competitions : DeleteCompetition(c.created_by, c.id)
  \/ Tick

SpecJoin == InitJoin /\ [][NextJoin]_vars

\* ------------------------------------------------ competition setup in isolation
\* the ids a setup request can name: those of the rows and one of no row
SetupCompetitionIds == 1..(MaxCompetitions + 1)
SetupDivisionIds == 1..(MaxApiDivisions + 1)
SetupProblemIds == 1..(MaxApiProblems + 1)

\* Competition 1 of user 1 with one division and one problem in it, which user
\* 2 has topped; two registered users. Both users, and a client without token,
\* send every setup request, with valid and invalid bodies and with ids of
\* rows and of no row.
InitSetup ==
  /\ users = { [id |-> u, display_name |-> u] : u \in 1..MaxClimbers }
  /\ competitions = { [id |-> 1, created_by |-> 1, is_public |-> TRUE, starts_at |-> NULL] }
  /\ divisions = { [id |-> MaxApiDivisions + 1, competition_id |-> 1,
                    name |-> MaxApiDivisions + 1, sort_order |-> NULL] }
  /\ problems = { [id |-> MaxApiProblems + 1, competition_id |-> 1,
                   division_id |-> MaxApiDivisions + 1] }
  /\ competition_participants = {}
  /\ ascents = { [problem_id |-> MaxApiProblems + 1, user_id |-> MaxClimbers,
                  topped |-> TRUE, top_attempts |-> 1,
                  zone |-> TRUE, zone_attempts |-> 1] }
  /\ podiumRows = [called |-> FALSE, id |-> NULL, rows |-> <<>>]
  /\ issued = [competitions |-> 1, divisions |-> 0, problems |-> 0]
  /\ req = Idle
  /\ response = NoResponse
  /\ clock = 0
  /\ join = JoinIdle
  /\ del = DelIdle
  /\ tab = TabInitial

NextSetup ==
  \/ \E u \in SignedIn \cup {NULL}, id \in SetupCompetitionIds,
        n \in SetupDivisionIds \cup {NULL} : CreateDivision(u, id, n, NULL)
  \/ \E u \in SignedIn \cup {NULL}, id \in SetupCompetitionIds, d \in SetupDivisionIds :
        DeleteDivisionCheck(u, id, d)
  \/ DeleteDivisionDelete
  \/ \E u \in SignedIn \cup {NULL}, id \in SetupCompetitionIds,
        d \in SetupDivisionIds \cup {NULL}, valid \in BOOLEAN : CreateProblem(u, id, d, valid)
  \/ \E u \in SignedIn \cup {NULL}, p \in SetupProblemIds : DeleteProblem(u, p)
  \/ \E u \in SignedIn \cup {NULL}, id \in SetupCompetitionIds, f \in CompetitionFields :
        UpdateCompetition(u, id, f)
  \/ \E u \in SignedIn \cup {NULL}, id \in SetupCompetitionIds : DeleteCompetition(u, id)

SpecSetup == InitSetup /\ [][NextSetup]_vars

\* ------------------------------------------------ the totals under re-logging
\* the bodies with both flags and with or without a top attempt count
TotalsBodies ==
  { ("topped" :> t) @@ ("zone" :> z) @@ Opt("top_attempts", pa, ta) :
      t \in BOOLEAN, z \in BOOLEAN, pa \in BOOLEAN, ta \in 1..MaxAttempts }

\* One competition with MaxDivisions divisions; problem 1 is in division 1 and
\* the other problems are together in any division or in none; two users
\* under different names, no ascent yet. The users log and re-log ascents
\* while no report is in flight, and the report is requested unfiltered.
InitTotals ==
  /\ users = { [id |-> u, display_name |-> u] : u \in 1..MaxClimbers }
  /\ competitions = { [id |-> 1, created_by |-> 1, is_public |-> TRUE, starts_at |-> NULL] }
  /\ divisions = { [id |-> d, competition_id |-> 1, name |-> d, sort_order |-> NULL] :
                     d \in DivisionIds }
  /\ \E g \in DivisionIds \cup {NULL} :
       problems = { [id |-> p, competition_id |-> 1,
                     division_id |-> IF p = 1 THEN 1 ELSE g] : p \in ProblemIds }
  /\ competition_participants = {}
  /\ ascents = {}
  /\ podiumRows = [called |-> FALSE, id |-> NULL, rows |-> <<>>]
  /\ issued = [competitions |-> 1, divisions |-> MaxDivisions, problems |-> MaxProblems]
  /\ req = Idle
  /\ response = NoResponse
  /\ clock = 0
  /\ join = JoinIdle
  /\ del = DelIdle
  /\ tab = TabInitial

NextTotals ==
  \/ /\ req.pc = "idle"
     /\ \E u \in SignedIn, p \in problems, body \in TotalsBodies : LogAscent(u, p.id, body)
  \/ \E c \in competitions : ReportFindCompetition(c.id, NULL)
  \/ ReportSummaries
  \/ ReportPodiums

SpecTotals == InitTotals /\ [][NextTotals]_vars

\* ------------------------------------------------ the tallies in isolation
\* The tallies are a function of the tables. The inputs are drawn in the
\* initial state: one competition with MaxDivisions divisions; problem 1 is in
\* division 1 and the other problems are together in any division or in none;
\* two users under different names; any ascent table, with any flags and
\* attempt counts.
InitTally ==
  /\ users = { [id |-> u, display_name |-> u] : u \in 1..MaxClimbers }
  /\ competitions = { [id |-> 1, created_by |-> 1, is_public |-> TRUE, starts_at |-> NULL] }
  /\ divisions = { [id |-> d, competition_id |-> 1, name |-> d, sort_order |-> NULL] :
                     d \in DivisionIds }
  /\ \E g \in DivisionIds \cup {NULL} :
       problems = { [id |-> p, competition_id |-> 1,
                     division_id |-> IF p = 1 THEN 1 ELSE g] : p \in ProblemIds }
  /\ competition_participants = {}
  /\ \E L \in SUBSET (ProblemIds \X (1..MaxClimbers)) : \E f \in [L -> AscentVals] :
       ascents = { AscentRow(l[1], l[2], f[l]) : l \in L }
  /\ podiumRows = [called |-> FALSE, id |-> NULL, rows |-> <<>>]
  /\ issued = [competitions |-> 1, divisions |-> MaxDivisions, problems |-> MaxProblems]
  /\ req = Idle
  /\ response = NoResponse
  /\ clock = 0
  /\ join = JoinIdle
  /\ del = DelIdle
  /\ tab = TabInitial

NextTally == \E c \in competitions : CallPodiums(c.id)

SpecTally == InitTally /\ [][NextTally]_vars

\* ------------------------------------------------ the division filter
\* The facts are drawn in the initial state: one competition with MaxDivisions
\* divisions, two users under any display names, problems assigned to a
\* division or to none, and ascents with any flags. The report is requested
\* without filter and with each division as the filter.
InitFilter ==
  /\ \E n \in [1..MaxClimbers -> Names] :
       users = { [id |-> u, display_name |-> n[u]] : u \in 1..MaxClimbers }
  /\ competitions = { [id |-> 1, created_by |-> 1, is_public |-> TRUE, starts_at |-> NULL] }
  /\ divisions = { [id |-> d, competition_id |-> 1, name |-> d, sort_order |-> NULL] :
                     d \in DivisionIds }
  /\ \E g \in [ProblemIds -> DivisionIds \cup {NULL}] :
       problems = { [id |-> p, competition_id |-> 1, division_id |-> g[p]] : p \in ProblemIds }
  /\ competition_participants = {}
  /\ \E L \in SUBSET (ProblemIds \X (1..MaxClimbers)) : \E f \in [L -> FlagVals] :
       ascents = { AscentRow(l[1], l[2], f[l]) : l \in L }
  /\ podiumRows = [called |-> FALSE, id |-> NULL, rows |-> <<>>]
  /\ issued = [competitions |-> 1, divisions |-> MaxDivisions, problems |-> MaxProblems]
  /\ req = Idle
  /\ response = NoResponse
  /\ clock = 0
  /\ join = JoinIdle
  /\ del = DelIdle
  /\ tab = TabInitial

NextFilter ==
  \/ \E c \in competitions, d \in DivisionIds \cup {NULL} : ReportFindCompetition(c.id, d)
  \/ ReportSummaries
  \/ ReportPodiums

SpecFilter == InitFilter /\ [][NextFilter]_vars

\* ------------------------------------------------ two competitions side by side
\* the competitions of the scope runs and the ids their requests name
ScopeCompetitionIds == 1..(MaxCompetitions + 1)
ScopeDivisionIds == 1..(MaxApiDivisions + MaxCompetitions + 1)

\* Two competitions of user 1, each with one division, no problem and no
\* participant; two registered users. The creator adds and deletes divisions
\* and problems and deletes competitions, the other user joins, and every request
\* names any competition with any division, its own or the other's. The
\* requests run interleaved.
InitScope ==
  /\ users = { [id |-> u, display_name |-> u] : u \in 1..MaxClimbers }
  /\ competitions = { [id |-> c, created_by |-> 1, is_public |-> TRUE, starts_at |-> NULL] :
                        c \in ScopeCompetitionIds }
  /\ divisions = { [id |-> MaxApiDivisions + c, competition_id |-> c, name |-> 1,
                    sort_order |-> NULL] : c \in ScopeCompetitionIds }
  /\ problems = {}
  /\ competition_participants = {}
  /\ ascents = {}
  /\ podiumRows = [called |-> FALSE, id |-> NULL, rows |-> <<>>]
  /\ issued = [competitions |-> MaxCompetitions + 1, divisions |-> 0, problems |-> 0]
  /\ req = Idle
  /\ response = NoResponse
  /\ clock = 0
  /\ join = JoinIdle
  /\ del = DelIdle
  /\ tab = TabInitial

NextScope ==
  \/ \E c \in competitions : CreateDivision(c.created_by, c.id, MaxNames, NULL)
  \/ \E c \in competitions, d \in ScopeDivisionIds : DeleteDivisionCheck(c.created_by, c.id, d)
  \/ DeleteDivisionDelete
  \/ \E c \in competitions, d \in ScopeDivisionIds \cup {NULL} :
        CreateProblem(c.created_by, c.id, d, TRUE)
  \/ \E c \in competitions, p \in problems : DeleteProblem(c.created_by, p.id)
  \/ \E c \in competitions : DeleteCompetition(c.created_by, c.id)
  \/ \E c \in competitions, d \in ScopeDivisionIds \cup {NULL} :
        JoinCheck(MaxClimbers, c.id, d)
  \/ JoinUpsert

SpecScope == InitScope /\ [][NextScope]_vars

\* ------------------------------------------------ the report's podium
\* The report on the inputs of the ranking: one division with one problem,
\* MaxUsers users under any display names, any ascent table.
NextPodium ==
  \/ \E c \in competitions : ReportFindCompetition(c.id, NULL)
  \/ ReportSummaries
  \/ ReportPodiums

SpecPodium == InitRank /\ [][NextPodium]_vars

\* ------------------------------------------------ the ranking under a new top
\* the bodies that log a top, with any zone flag and attempt counts
ToppedBodies == { b \in AscentBodies : "topped" \in DOMAIN b /\ b.topped /\ "zone" \in DOMAIN b }

\* The inputs of the ranking with MaxRanked users: one division with one
\* problem, the users under any display names, any ascent table (profiles in
\* non-decreasing order of user id). Then users log tops on the problem.
InitMono ==
  /\ competitions = { [id |-> 1, created_by |-> 1, is_public |-> TRUE, starts_at |-> NULL] }
  /\ divisions = { [id |-> 1, competition_id |-> 1, name |-> 1, sort_order |-> NULL] }
  /\ problems = { [id |-> 1, competition_id |-> 1, division_id |-> 1] }
  /\ competition_participants = {}
  /\ \E s \in [1..MaxRanked -> ProfileSet] :
       /\ \A u \in 1..MaxRanked :
            IF u = 1 THEN TRUE ELSE ~LexLess(ProfileKey(s[u]), ProfileKey(s[u - 1]))
       /\ users = { [id |-> u, display_name |-> s[u].display_name] : u \in 1..MaxRanked }
       /\ ascents = { AscentRow(1, u, s[u].ascent) : u \in { x \in 1..MaxRanked : s[x].logged } }
  /\ podiumRows = [called |-> FALSE, id |-> NULL, rows |-> <<>>]
  /\ issued = [competitions |-> 1, divisions |-> 1, problems |-> 1]
  /\ req = Idle
  /\ response = NoResponse
  /\ clock = 0
  /\ join = JoinIdle
  /\ del = DelIdle
  /\ tab = TabInitial

NextMono == \E u \in SignedIn, p \in problems, body \in ToppedBodies : LogAscent(u, p.id, body)

SpecMono == InitMono /\ [][NextMono]_vars

\* ------------------------------------------------ deleting a division
\* One competition with MaxDivisions divisions and one problem in each; two
\* users, one of them possibly registered in a division; ascents of any users
\* on any problems. The creator deletes divisions and the report is requested,
\* one request at a time.
InitDrop ==
  /\ users = { [id |-> u, display_name |-> u] : u \in 1..MaxClimbers }
  /\ competitions = { [id |-> 1, created_by |-> 1, is_public |-> TRUE, starts_at |-> NULL] }
  /\ divisions = { [id |-> d, competition_id |-> 1, name |-> d, sort_order |-> NULL] :
                     d \in DivisionIds }
  /\ problems = { [id |-> p, competition_id |-> 1, division_id |-> DivisionOfProblem(p)] :
                    p \in ProblemIds }
  /\ \E d \in DivisionIds \cup {NULL} :
       competition_participants =
         IF d = NULL THEN {}
         ELSE { [competition_id |-> 1, user_id |-> 1, division_id |-> d, joined_at |-> 0] }
  /\ \E L \in SUBSET (ProblemIds \X (1..MaxClimbers)) : \E f \in [L -> FlagVals] :
       ascents = { AscentRow(l[1], l[2], f[l]) : l \in L }
  /\ podiumRows = [called |-> FALSE, id |-> NULL, rows |-> <<>>]
  /\ issued = [competitions |-> 1, divisions |-> MaxDivisions, problems |-> MaxProblems]
  /\ req = Idle
  /\ response = NoResponse
  /\ clock = 0
  /\ join = JoinIdle
  /\ del = DelIdle
  /\ tab = TabInitial

NextDrop ==
  \/ /\ req.pc = "idle"
     /\ \E c \in competitions, d \in DivisionIds : DeleteDivisionCheck(c.created_by, c.id, d)
  \/ DeleteDivisionDelete
  \/ /\ del.pc = "idle"
     /\ \E c \in competitions : ReportFindCompetition(c.id, NULL)
  \/ ReportSummaries
  \/ ReportPodiums

SpecDrop == InitDrop /\ [][NextDrop]_vars

\* ------------------------------------------------- the client's report tab
\* CompetitionReportTab holds selectedDivisionId, loading, error and report.
\* The effect runs loadReport after the first render and after every render in
\* which selectedDivisionId has changed; each run sends one request, and the
\* requests settle in any order. The tables do not change while the tab is
\* open: one competition with every division, one topped ascent.
server == <<facts, podiumRows, issued, req, response, clock, inflight>>
FailedToLoad == 1

\* GET /api/reports/competition/:id/summary[?division_id=]: the bodies the
\* server may answer with
fetchCompetitionReport(competitionId, divisionId) ==
  { [competition |-> competitionId, divisions |-> Combine(s, rows)] :
      s \in SummaryQuery(competitionId, divisionId),
      rows \in PodiumQuery(competitionId, divisionId) }

\* loadReport up to its await, in the render where the filter is divisionId:
\* setLoading(true), setError(null), the request is sent
loadReport(t, divisionId) ==
  [t EXCEPT !.selectedDivisionId = divisionId, !.loading = TRUE, !.error = NULL,
            !.pending = @ \cup { [n |-> t.sent + 1, division_id |-> divisionId] },
            !.sent = @ + 1]

\* useEffect(() => { loadReport(); }, [loadReport]) after the first render
TabMount ==
  /\ tab.sent = 0
  /\ tab' = loadReport(tab, tab.selectedDivisionId)
  /\ UNCHANGED server

\* the chip "All divisions": setSelectedDivisionId(null); with null selected
\* already the state is the same and nothing is rendered or sent
PressAllDivisions ==
  /\ tab.sent \in 1..(MaxRequests - 1)
  /\ tab.selectedDivisionId # NULL
  /\ tab' = loadReport(tab, NULL)
  /\ UNCHANGED server

\* the chip of division d: setSelectedDivisionId(prev => prev === d ? null : d)
PressDivision(d) ==
  /\ tab.sent \in 1..(MaxRequests - 1)
  /\ tab' = loadReport(tab, IF tab.selectedDivisionId = d THEN NULL ELSE d)
  /\ UNCHANGED server

\* loadReport after its await, the request r answered: setReport(data), then
\* finally setLoading(false)
ReportArrives(r) ==
  /\ r \in tab.pending
  /\ \E c \in competitions : \E data \in fetchCompetitionReport(c.id, r.division_id) :
       tab' = [tab EXCEPT !.report = data, !.shown = r.n, !.loading = FALSE,
                          !.pending = @ \ {r}]
  /\ UNCHANGED server

\* loadReport after its await, the request r rejected: setError(message), then
\* finally setLoading(false)
ReportFails(r) ==
  /\ r \in tab.pending
  /\ tab' = [tab EXCEPT !.error = FailedToLoad, !.loading = FALSE, !.pending = @ \ {r}]
  /\ UNCHANGED server

InitTab ==
  /\ users = { [id |-> u, display_name |-> u] : u \in 1..MaxClimbers }
  /\ competitions = { [id |-> 1, created_by |-> 1, is_public |-> TRUE, starts_at |-> NULL] }
  /\ divisions = { [id |-> d, competition_id |-> 1, name |-> d, sort_order |-> NULL] :
                     d \in DivisionIds }
  /\ problems = { [id |-> p, competition_id |-> 1, division_id |-> DivisionOfProblem(p)] :
                    p \in ProblemIds }
  /\ competition_participants = {}
  /\ ascents = { AscentRow(1, 1, ToppedAndZoned) }
  /\ podiumRows = [called |-> FALSE, id |-> NULL, rows |-> <<>>]
  /\ issued = [competitions |-> 1, divisions |-> MaxDivisions, problems |-> MaxProblems]
  /\ req = Idle
  /\ response = NoResponse
  /\ clock = 0
  /\ join = JoinIdle
  /\ del = DelIdle
  /\ tab = TabInitial

NextTab ==
  \/ TabMount
  \/ PressAllDivisions
  \/ \E d \in divisions : PressDivision(d.id)
  \/ \E r \in tab.pending : ReportArrives(r)
  \/ \E r \in tab.pending : ReportFails(r)

SpecTab == InitTab /\ [][NextTab]_vars

\* ------------------------------------------------------------ the claims
Range(s) == { s[i] : i \in DOMAIN s }

\* the four numeric totals of a tally
Tuple4(r) == <<r.total_tops, r.total_zones, r.total_top_attempts, r.total_zone_attempts>>

\* the four numeric stages of the ranking, best first
Better4(a, b) ==
  \/ a.total_tops > b.total_tops
  \/ a.total_tops = b.total_tops /\ a.total_zones > b.total_zones
  \/ /\ a.total_tops = b.total_tops /\ a.total_zones = b.total_zones
     /\ a.total_top_attempts < b.total_top_attempts
  \/ /\ a.total_tops = b.total_tops /\ a.total_zones = b.total_zones
     /\ a.total_top_attempts = b.total_top_attempts
     /\ a.total_zone_attempts < b.total_zone_attempts

\* the users with at least one ascent on a problem of division d
TalliedUsers(d) ==
  { a.user_id : a \in { x \in ascents :
      \E p \in problems : p.id = x.problem_id /\ p.division_id = d } }

\* C1: within a division, tallied users with the same 4-tuple have the same
\* rank, and the users of the next distinct 4-tuple have that rank + 1.
C1_TieInvariant ==
  podiumRows.called =>
    \A a, b \in ranked(podiumRows.id) :
      a.division_id = b.division_id =>
        /\ Tuple4(a) = Tuple4(b) => a.rank = b.rank
        /\ ( /\ Better4(a, b)
             /\ ~\E x \in ranked(podiumRows.id) :
                   x.division_id = a.division_id /\ Better4(a, x) /\ Better4(x, b) )
           => b.rank = a.rank + 1

\* C2: a user who is better at the first numeric stage that differs (more
\* tops, more zones, fewer top attempts, fewer zone attempts) has a strictly
\* smaller rank number.
C2_KeyOrder ==
  podiumRows.called =>
    \A a, b \in ranked(podiumRows.id) :
      (a.division_id = b.division_id /\ Better4(a, b)) => a.rank < b.rank

\* the attempts stage decides between two users whose tops and zones tie, also
\* against the display names
C2_Witness ==
  /\ podiumRows.called
  /\ \E i, j \in DOMAIN podiumRows.rows :
       LET a == podiumRows.rows[i]
           b == podiumRows.rows[j]
       IN /\ a.total_tops = b.total_tops /\ a.total_zones = b.total_zones
          /\ a.total_tops > 0
          /\ a.total_top_attempts < b.total_top_attempts
          /\ a.user_display_name > b.user_display_name
          /\ a.rank < b.rank

\* C4: the podium of a division holds exactly the tallied users of rank <= 3,
\* each once, however many they are.
C4_TruncationByRank ==
  podiumRows.called =>
    LET rows == Range(podiumRows.rows)
        all == ranked(podiumRows.id)
    IN /\ Len(podiumRows.rows) = Cardinality(rows)
       /\ \A r \in rows : r.rank <= 3 /\ r.user_id \in TalliedUsers(r.division_id)
       /\ \A r1, r2 \in rows :
            (r1.user_id = r2.user_id /\ r1.division_id = r2.division_id) => r1 = r2
       /\ \A d \in divisions : \A u \in TalliedUsers(d.id) :
            (\E r \in rows : r.user_id = u /\ r.division_id = d.id)
              <=> (\E r \in all : r.user_id = u /\ r.division_id = d.id /\ r.rank <= 3)

\* four users on a podium of three ranks
C4_Witness ==
  /\ podiumRows.called
  /\ Len(podiumRows.rows) > 3
  /\ \E i, j \in DOMAIN podiumRows.rows :
       i # j /\ podiumRows.rows[i].rank = podiumRows.rows[j].rank

\* C5: the five-stage key decides between any two distinct tallied users of a
\* division, so the facts determine one sequence of podium entries.
C5_KeyTotalOrder ==
  podiumRows.called =>
    /\ \A a, b \in ranked(podiumRows.id) :
         (a.division_id = b.division_id /\ a.user_id # b.user_id)
           => LexLess(RankKey(a), RankKey(b)) \/ LexLess(RankKey(b), RankKey(a))
    /\ Cardinality(competition_division_podiums(podiumRows.id, 3)) = 1

\* C6: a second computation on the same facts gives two users with differing
\* 4-tuples the same rank numbers and the same relative order.
C6_Determinism ==
  [][ (podiumRows.called /\ podiumRows'.called /\ podiumRows'.id = podiumRows.id
       /\ facts' = facts) =>
        LET old == podiumRows.rows
            new == podiumRows'.rows
        IN \A i, j \in DOMAIN old :
             ( /\ old[i].division_id = old[j].division_id
               /\ old[i].user_id # old[j].user_id
               /\ Tuple4(old[i]) # Tuple4(old[j]) )
             => \E k, l \in DOMAIN new :
                  new[k] = old[i] /\ new[l] = old[j] /\ ((i < j) <=> (k < l)) ]_vars

\* two users of one name and differing 4-tuples on the podium
C6_Witness ==
  /\ podiumRows.called
  /\ \E i, j \in DOMAIN podiumRows.rows :
       /\ podiumRows.rows[i].user_id # podiumRows.rows[j].user_id
       /\ podiumRows.rows[i].user_display_name = podiumRows.rows[j].user_display_name
       /\ Tuple4(podiumRows.rows[i]) # Tuple4(podiumRows.rows[j])

\* ---- claims about the report (response.status = 200: a report was sent)
\* the ascent rows on problems of division d
AscentsOf(d) ==
  { a \in ascents : \E p \in problems : p.id = a.problem_id /\ p.division_id = d }

\* the users registered in competition id with division d
RegisteredIn(id, d) ==
  { cp.user_id : cp \in { x \in competition_participants :
                            x.competition_id = id /\ x.division_id = d } }

UsersOf(rows) == { a.user_id : a \in rows }

PodiumUsers(e) == { e.podium[j].user_id : j \in DOMAIN e.podium }

\* Number(v): the number a JS value stands for
RECURSIVE TextValue(_)
TextValue(t) ==
  IF Len(t) = 1 THEN t[1] ELSE 10 * TextValue(SubSeq(t, 1, Len(t) - 1)) + t[Len(t)]
NumberOf(v) == IF v.type = "string" THEN TextValue(v.text) ELSE v.value

\* the division entries of the response, their counts read as numbers
Entries ==
  { [division_id |-> e.division_id, division_name |-> e.division_name,
     participant_count |-> NumberOf(e.participant_count),
     problem_count |-> NumberOf(e.problem_count),
     total_tops |-> NumberOf(e.total_tops),
     total_zones |-> NumberOf(e.total_zones),
     podium |-> e.podium] :
      e \in { response.divisions[i] : i \in DOMAIN response.divisions } }

Max(a, b) == IF a > b THEN a ELSE b

\* C3: participant_count is the size of the union, by user id, of the users
\* registered in the division and the users with an ascent on one of its
\* problems: at least the larger of the two sets, at most their sum.
C3_ParticipantUnion ==
  response.status = 200 =>
    \A e \in Entries :
      LET A == RegisteredIn(response.competition, e.division_id)
          B == UsersOf(AscentsOf(e.division_id))
      IN /\ e.participant_count = Cardinality(A \cup B)
         /\ e.participant_count >= Max(Cardinality(A), Cardinality(B))
         /\ e.participant_count <= Cardinality(A) + Cardinality(B)

\* a division with a user who joined and climbed, and a user who did only one
C3_Witness ==
  /\ response.status = 200
  /\ \E e \in Entries :
       LET A == RegisteredIn(response.competition, e.division_id)
           B == UsersOf(AscentsOf(e.division_id))
       IN A \cap B # {} /\ A # B /\ e.participant_count = 2

\* C7: a problem without division contributes to nothing: every total, count
\* and tally of a division's entry comes from the problems of that division.
C7_UnassignedContributesNothing ==
  response.status = 200 =>
    \A e \in Entries :
      LET mine == AscentsOf(e.division_id)
      IN /\ e.total_tops = Cardinality({ a \in mine : a.topped })
         /\ e.total_zones = Cardinality({ a \in mine : a.zone })
         /\ e.problem_count =
              Cardinality({ p \in problems : p.division_id = e.division_id })
         /\ e.participant_count <=
              Cardinality(RegisteredIn(response.competition, e.division_id)
                          \cup UsersOf(mine))
         /\ \A j \in DOMAIN e.podium :
              LET t == e.podium[j]
                  own == { a \in mine : a.user_id = t.user_id }
              IN /\ own # {}
                 /\ t.total_tops = Cardinality({ a \in own : a.topped })
                 /\ t.total_zones = Cardinality({ a \in own : a.zone })
                 /\ t.total_top_attempts = Coalesce(SumAttempts(own, "top_attempts"), 0)
                 /\ t.total_zone_attempts = Coalesce(SumAttempts(own, "zone_attempts"), 0)

\* a report on facts with a topped and zoned ascent on an unassigned problem,
\* by a user who has no other ascent and did not join
C7_Witness ==
  /\ response.status = 200
  /\ Entries # {}
  /\ \E a \in ascents :
       /\ a.topped /\ a.zone
       /\ \E p \in problems : p.id = a.problem_id /\ p.division_id = NULL
       /\ \A b \in ascents : b.user_id = a.user_id => b = a
       /\ \A cp \in competition_participants : cp.user_id # a.user_id

C10_NoAscentNoPodium ==
  response.status = 200 =>
    \A e \in Entries :
      LET idle == { u.id : u \in users } \ UsersOf(AscentsOf(e.division_id))
          reg == RegisteredIn(response.competition, e.division_id)
      IN /\ PodiumUsers(e) \cap idle = {}
         /\ e.participant_count >= Cardinality(reg \cap idle)
         /\ (AscentsOf(e.division_id) = {} /\ Cardinality(reg) = 1 /\ e.problem_count = 1)
              => (e.participant_count = 1 /\ e.total_tops = 0 /\ e.podium = <<>>)

\* Scenario C: one problem, no ascent, one registered participant
C10_Witness ==
  /\ response.status = 200
  /\ \E e \in Entries :
       /\ AscentsOf(e.division_id) = {}
       /\ Cardinality(RegisteredIn(response.competition, e.division_id)) = 1
       /\ e.problem_count = 1 /\ e.participant_count = 1 /\ e.podium = <<>>

RECURSIVE SumOver(_, _)
SumOver(seq, col) ==
  IF seq = <<>> THEN 0 ELSE seq[1][col] + SumOver(Tail(seq), col)

\* C8: the parts of one report reflect one state of the facts, whatever runs
\* beside the request: in every division entry the tops and zones of the podium
\* are within the division's totals and the podium users are within its
\* participant_count.
C8_OneSnapshot ==
  response.status = 200 =>
    \A e \in Entries :
      /\ SumOver(e.podium, "total_tops") <= e.total_tops
      /\ SumOver(e.podium, "total_zones") <= e.total_zones
      /\ Cardinality(PodiumUsers(e)) <= e.participant_count

\* ---- claims about the report request's error handling, order and frame
\* C11: a report request for an id that is the id of no competition (never
\* created, or deleted) is answered 404 without a report body, whatever the
\* division filter, and runs no further query; a request goes on to its
\* queries only for a competition its existence check found.
C11_NotFound ==
  [][ /\ \A id \in 1..(MaxCompetitions + 1), d \in ApiDivisionIds \cup {NULL} :
           (ReportFindCompetition(id, d) /\ ~\E c \in competitions : c.id = id)
             => /\ response' = [status |-> 404, competition |-> NULL, divisions |-> <<>>]
                /\ req' = Idle
      /\ (req.pc = "idle" /\ req'.pc = "found")
           => \E c \in competitions : c.id = req'.id ]_vars

\* 404 for a competition that was created and deleted
C11_Witness ==
  /\ response = [status |-> 404, competition |-> NULL, divisions |-> <<>>]
  /\ competitions = {} /\ issued.competitions = MaxCompetitions
  /\ req = Idle

\* the request in flight filters by a division that is no division of its
\* competition
ForeignFilter ==
  /\ req.pc # "idle"
  /\ req.division_id # NULL
  /\ ~\E d \in divisions : d.id = req.division_id /\ d.competition_id = req.id

\* C12: for an existing competition and a filter naming a division of another
\* competition or no division, the summary query and the podium query return
\* no row and the request, unless a query fails, ends in a 200 report with the
\* competition header and an empty divisions list.
C12_ForeignFilterEmpty ==
  [][ ForeignFilter =>
        /\ req'.pc = "summarised" => req'.summaries = <<>>
        /\ (req.pc = "summarised" /\ response'.status # 500)
             => response' = [status |-> 200, competition |-> req.id, divisions |-> <<>>]
        /\ req.pc = "summarised" => PodiumQuery(req.id, req.division_id) = {<<>>} ]_vars

\* the filter names a division of the other competition that has a summary and
\* a podium of its own
C12_Witness ==
  /\ ForeignFilter
  /\ req.pc = "summarised" /\ req.summaries = <<>>
  /\ \E d \in divisions :
       /\ d.id = req.division_id /\ d.competition_id # req.id
       /\ \E r \in ranked(d.competition_id) : r.division_id = d.id
       /\ \E cp \in competition_participants : cp.division_id = d.id
  /\ \E d \in divisions : d.competition_id = req.id

\* division a comes before division b: by sort order, null last, then by name
DivisionBefore(a, b) ==
  \/ a.sort_order # NULL /\ b.sort_order = NULL
  \/ a.sort_order # NULL /\ b.sort_order # NULL /\ a.sort_order < b.sort_order
  \/ a.sort_order = b.sort_order /\ a.name < b.name

\* C13: a report without filter has exactly one entry per division of the
\* competition, in the order of the sort key ascending, nulls last, then the
\* name ascending, whatever the order of the podium rows.
C13_DivisionOrder ==
  [][ (req.pc = "summarised" /\ req.division_id = NULL /\ response'.status = 200) =>
        LET out == response'.divisions
            mine == { d \in divisions : d.competition_id = req.id }
            Row(i) == CHOOSE d \in divisions : d.id = out[i].division_id
        IN /\ Len(out) = Cardinality(mine)
           /\ { out[i].division_id : i \in DOMAIN out } = { d.id : d \in mine }
           /\ \A i, j \in DOMAIN out : i < j => DivisionBefore(Row(i), Row(j)) ]_vars

\* two divisions with podiums: the first has a sort order and the later name,
\* the second has no sort order
C13_Witness ==
  /\ response.status = 200
  /\ Len(response.divisions) = 2
  /\ response.divisions[1].division_name > response.divisions[2].division_name
  /\ \E d \in divisions : d.id = response.divisions[1].division_id /\ d.sort_order # NULL
  /\ \E d \in divisions : d.id = response.divisions[2].division_id /\ d.sort_order = NULL
  /\ \A i \in 1..2 : response.divisions[i].podium # <<>>

\* C14: no step of a report request, whether it ends in a report, in 404 or in
\* an error, changes a table or stores a standing, and a report sent is the one
\* computed from the facts of that time.
C14_ReadOnly ==
  [][ /\ facts' = facts
      /\ podiumRows' = podiumRows
      /\ issued' = issued
      /\ (req.pc = "summarised" /\ response'.status = 200) =>
           \E s \in SummaryQuery(req.id, req.division_id),
              rows \in PodiumQuery(req.id, req.division_id) :
             response'.divisions = Combine(s, rows) ]_vars

\* a report was sent, with a podium and a participant off the podium, on facts
\* with ascents
C14_Witness ==
  /\ response.status = 200
  /\ \E e \in Entries : e.podium # <<>> /\ e.participant_count > Len(e.podium)
  /\ ascents # {}
  /\ req = Idle

\* C15: a response is a whole report or no report. A status other than 200
\* comes with no competition header and no division; a request whose query
\* fails, the podium query after the summary query included, ends with 500;
\* and a report is sent only by the step that has the rows of both queries,
\* so each division with a tallied user has a podium.
C15_NoPartialReport ==
  [][ /\ response'.status # 200 =>
           (response'.competition = NULL /\ response'.divisions = <<>>)
      /\ (req.pc # "idle" /\ req' = Idle /\ response'.status # 200) =>
           response'.status = 500
      /\ response'.status = 200 =>
           /\ req.pc = "summarised"
           /\ \E rows \in PodiumQuery(req.id, req.division_id) :
                response'.divisions = Combine(req.summaries, rows)
           /\ \A i \in DOMAIN response'.divisions :
                LET e == response'.divisions[i]
                IN (e.podium = <<>>) <=> (AscentsOf(e.division_id) = {}) ]_vars

\* an error answer on facts for which a report has summaries and podiums
C15_Witness ==
  /\ response = [status |-> 500, competition |-> NULL, divisions |-> <<>>]
  /\ req = Idle
  /\ \E c \in competitions : \E d \in divisions :
       /\ d.competition_id = c.id
       /\ \E r \in ranked(c.id) : r.division_id = d.id /\ r.total_tops > 0

\* ---- claims about the write requests
\* the tops in the tally of user u in division d, 0 without tally
TallyTops(u, d) ==
  LET mine == { r \in per_user(1) : r.user_id = u /\ r.division_id = d }
  IN IF mine = {} THEN 0 ELSE (CHOOSE r \in mine : TRUE).total_tops

B2N(b) == IF b THEN 1 ELSE 0

\* C16: after a log of user u on problem p there is one row of (p, u), with
\* the logged values (absent topped / zone as false, absent attempts as null),
\* the other rows are as before, and the user's tally and the division's
\* total_tops count the problem by the new topped alone.
C16_LastWriteWins ==
  [][ \A u \in SignedIn, p \in { q.id : q \in problems }, body \in AscentBodies :
        (response'.status = 200 /\ LogAscent(u, p, body)) =>
          LET Has(f) == f \in DOMAIN body
              want == [problem_id |-> p, user_id |-> u,
                       topped |-> Has("topped") /\ body.topped,
                       top_attempts |-> IF Has("top_attempts") THEN body.top_attempts ELSE NULL,
                       zone |-> Has("zone") /\ body.zone,
                       zone_attempts |-> IF Has("zone_attempts") THEN body.zone_attempts
                                         ELSE NULL]
              Mine(rows) == { a \in rows : a.problem_id = p /\ a.user_id = u }
              was == \E a \in Mine(ascents) : a.topped
              d == CHOOSE x \in divisions :
                     \E q \in problems : q.id = p /\ q.division_id = x.id
          IN /\ Mine(ascents') = {want}
             /\ ascents' \ Mine(ascents') = ascents \ Mine(ascents)
             /\ TallyTops(u, d.id)' = TallyTops(u, d.id) - B2N(was) + B2N(want.topped)
             /\ total_tops(1, d)' = total_tops(1, d) - B2N(was) + B2N(want.topped)
             /\ ~want.topped => TallyTops(u, d.id)' = 0 ]_vars

\* both users have logged on the problem: one row has every column set, the
\* other has the values stored for an empty body
C16_Witness ==
  /\ response.status = 200
  /\ \E a, b \in ascents :
       /\ a.user_id # b.user_id
       /\ a.topped /\ a.zone /\ a.top_attempts # NULL /\ a.zone_attempts # NULL
       /\ ~b.topped /\ ~b.zone /\ b.top_attempts = NULL /\ b.zone_attempts = NULL

\* the participant rows of user u in competition id
RowsOf(rows, id, u) == { cp \in rows : cp.competition_id = id /\ cp.user_id = u }

\* C17: there is at most one participant row per (competition, user), so a
\* user is registered in at most one division of a competition; a successful
\* join leaves the user's row with the division supplied (null when none) and
\* the time of the upsert, and leaves the other rows alone.
C17_JoinUpsert ==
  [][ /\ \A a, b \in competition_participants' :
           (a.competition_id = b.competition_id /\ a.user_id = b.user_id) => a = b
      /\ \A d1, d2 \in divisions' :
           d1.id # d2.id => (RegisteredIn(1, d1.id) \cap RegisteredIn(1, d2.id))' = {}
      /\ (join.pc = "checked" /\ response'.status = 201) =>
           /\ RowsOf(competition_participants', join.id, join.user) =
                { [competition_id |-> join.id, user_id |-> join.user,
                   division_id |-> join.division_id, joined_at |-> clock] }
           /\ competition_participants' \ RowsOf(competition_participants', join.id, join.user)
                = competition_participants \ RowsOf(competition_participants, join.id, join.user)
    ]_vars

\* both users are registered, in different divisions, one of them by a join
\* made after time has passed
C17_Witness ==
  /\ response.status = 201 /\ join = JoinIdle
  /\ \E a, b \in competition_participants :
       /\ a.user_id # b.user_id
       /\ a.division_id # NULL /\ b.division_id # NULL /\ a.division_id # b.division_id
       /\ a.joined_at = 0 /\ b.joined_at = MaxClock

\* C18: the DELETE of a division removes the division row only when no
\* participant row of the competition has the division at that moment, whatever
\* join runs beside it; and a delete request made while participants have the
\* division is answered 400 and changes no division, problem or participant.
C18_DeleteOnlyEmpty ==
  [][ /\ (del.pc = "counted" /\ divisions' # divisions) =>
           ~\E cp \in competition_participants :
               cp.competition_id = del.id /\ cp.division_id = del.division_id
      /\ \A u \in SignedIn, c \in competitions, d \in DivisionIds :
           ( /\ DeleteDivisionCheck(u, c.id, d)
             /\ c.created_by = u
             /\ \E cp \in competition_participants :
                   cp.competition_id = c.id /\ cp.division_id = d )
           => /\ response'.status = 400
              /\ del' = DelIdle
              /\ UNCHANGED <<divisions, problems, competition_participants>> ]_vars

\* the competition exists and the client is not signed in as its creator
NotCreator(u, c) == u = NULL \/ c.created_by # u

\* the request is answered with one of the statuses and the setup is as before
Denied(statuses) ==
  /\ response'.status \in statuses
  /\ UNCHANGED <<competitions, divisions, problems, ascents>>

\* C19 as stated: a setup request (add or delete a division, add or delete a
\* problem, update or delete the competition) sent without token or by a user
\* who is not the competition's creator is answered 401 or 403, or 401 or 404
\* for the update and the delete of the competition, and leaves competitions,
\* divisions, problems and ascents unchanged.
C19_OnlyCreator ==
  [][ \A u \in SignedIn \cup {NULL}, c \in competitions :
        NotCreator(u, c) =>
          /\ \A n \in SetupDivisionIds \cup {NULL} :
               CreateDivision(u, c.id, n, NULL) => Denied({401, 403})
          /\ \A d \in SetupDivisionIds :
               DeleteDivisionCheck(u, c.id, d) => Denied({401, 403}) /\ del' = DelIdle
          /\ \A d \in SetupDivisionIds \cup {NULL}, valid \in BOOLEAN :
               CreateProblem(u, c.id, d, valid) => Denied({401, 403})
          /\ \A p \in problems :
               (p.competition_id = c.id /\ DeleteProblem(u, p.id)) => Denied({401, 403})
          /\ \A f \in CompetitionFields :
               UpdateCompetition(u, c.id, f) => Denied({401, 404})
          /\ DeleteCompetition(u, c.id) => Denied({401, 404}) ]_vars

\* the status a denied request gets: 401 without token, 400 for a body the
\* handler refuses before it looks the competition up, else the handler's
\* answer to a user who is not the creator
DeniedStatus(u, invalid, other) ==
  IF u = NULL THEN 401 ELSE IF invalid THEN 400 ELSE other

\* C19, amended: such a request is answered 401 without token, 400 when its
\* body is invalid (a blank division name, a problem without code or
\* discipline, an update that names no column), and otherwise 403, or 404 for
\* the update and the delete of the competition; in every case competitions,
\* divisions, problems and ascents are unchanged and no delete is left pending.
C19_OnlyCreatorOrInvalid ==
  [][ \A u \in SignedIn \cup {NULL}, c \in competitions :
        NotCreator(u, c) =>
          /\ \A n \in SetupDivisionIds \cup {NULL} :
               CreateDivision(u, c.id, n, NULL) =>
                 Denied({DeniedStatus(u, n = NULL, 403)})
          /\ \A d \in SetupDivisionIds :
               DeleteDivisionCheck(u, c.id, d) =>
                 Denied({DeniedStatus(u, FALSE, 403)}) /\ del' = DelIdle
          /\ \A d \in SetupDivisionIds \cup {NULL}, valid \in BOOLEAN :
               CreateProblem(u, c.id, d, valid) =>
                 Denied({DeniedStatus(u, ~valid, 403)})
          /\ \A p \in problems :
               (p.competition_id = c.id /\ DeleteProblem(u, p.id)) =>
                 Denied({DeniedStatus(u, FALSE, 403)})
          /\ \A f \in CompetitionFields :
               UpdateCompetition(u, c.id, f) =>
                 Denied({DeniedStatus(u, DOMAIN f = {}, 404)})
          /\ DeleteCompetition(u, c.id) => Denied({DeniedStatus(u, FALSE, 404)}) ]_vars

\* a request was answered 403 or 404 while the creator's own additions (a
\* division and a problem made through the API) and the ascent stand
C19_Witness ==
  /\ response.status \in {403, 404}
  /\ \E c \in competitions : \E u \in SignedIn : c.created_by # u
  /\ \E d \in divisions : d.id \in ApiDivisionIds
  /\ \E p \in problems : p.id <= MaxApiProblems
  /\ ascents # {}

\* the competition has a start time that is not after the current time
Started(c) == c.starts_at # NULL /\ c.starts_at <= clock

\* C20: a join request is answered 404 for an id of no competition, 403 for a
\* competition that is not public or has started, 400 for a division that is
\* not the competition's, and then changes no participant row; and no join
\* creates or changes a participant row of a competition that has started.
C20_JoinClosed ==
  [][ /\ \A u \in SignedIn, id \in 1..2, d \in DivisionIds \cup {NULL, MaxDivisions + 1} :
           JoinCheck(u, id, d) =>
             LET cs == { c \in competitions : c.id = id }
                 Rejected(status) ==
                   /\ response'.status = status
                   /\ join' = JoinIdle
                   /\ UNCHANGED competition_participants
             IN /\ cs = {} => Rejected(404)
                /\ \A c \in cs :
                     /\ (~c.is_public \/ Started(c)) => Rejected(403)
                     /\ ( /\ c.is_public /\ ~Started(c) /\ d # NULL
                          /\ ~\E x \in divisions : x.id = d /\ x.competition_id = id )
                        => Rejected(400)
      /\ (join.pc = "checked" /\ join'.pc = "idle") =>
           \A c \in competitions :
             (c.id = join.id /\ Started(c)) =>
               UNCHANGED competition_participants ]_vars

\* ---- claims about the totals, the tallies and the podium's shape
\* the flags of the ascent rows, without their attempt counts
Flags == { <<a.problem_id, a.user_id, a.topped, a.zone>> : a \in ascents }

\* C21: in a report, total_tops of a division is the number of ascent rows
\* with topped = true on the division's problems and total_zones the number of
\* those with zone = true, each (user, problem) pair counted once; and a
\* logged ascent that changes attempt counts only changes neither total.
C21_TotalsCountRows ==
  [][ /\ (response'.status = 200 /\ response'.competition # NULL) =>
           \A e \in Entries' :
             /\ e.total_tops =
                  Cardinality({ <<a.user_id, a.problem_id>> :
                                  a \in { x \in AscentsOf(e.division_id) : x.topped } })
             /\ e.total_zones =
                  Cardinality({ <<a.user_id, a.problem_id>> :
                                  a \in { x \in AscentsOf(e.division_id) : x.zone } })
      /\ Flags' = Flags =>
           \A c \in competitions, d \in divisions :
             /\ total_tops(c.id, d)' = total_tops(c.id, d)
             /\ total_zones(c.id, d)' = total_zones(c.id, d) ]_vars

\* a report on a division where two users topped the same problem, one of them
\* with an attempt count, and a row with attempts and no top: total_tops is 2
C21_Witness ==
  /\ response.status = 200 /\ response.competition # NULL
  /\ \E e \in Entries :
       /\ e.total_tops = 2
       /\ \E a, b \in AscentsOf(e.division_id) :
            /\ a.problem_id = b.problem_id /\ a.user_id # b.user_id
            /\ a.topped /\ b.topped /\ a.top_attempts # NULL /\ b.top_attempts = NULL
       /\ \E a \in AscentsOf(e.division_id) : ~a.topped /\ a.top_attempts # NULL

\* C22: in a report, which is not an error, the entry of a division without
\* problems has problem_count, total_tops and total_zones 0, as numbers, never
\* null, and an empty podium; and every entry's problem_count is the number of
\* the competition's problems whose division_id is the division.
C22_ZeroProblems ==
  (response.status = 200 /\ response.competition # NULL) =>
    \A i \in DOMAIN response.divisions :
      LET e == response.divisions[i]
          mine == { p \in problems : p.competition_id = response.competition
                                      /\ p.division_id = e.division_id }
      IN /\ e.problem_count = JsNumber(Cardinality(mine))
         /\ mine = {} => /\ e.total_tops = JsNumber(0)
                         /\ e.total_zones = JsNumber(0)
                         /\ e.podium = <<>>

\* the sum of a column over rows, a null counted as 0
RECURSIVE SumZeroed(_, _)
SumZeroed(rows, col) ==
  IF rows = {} THEN 0
  ELSE LET r == CHOOSE x \in rows : TRUE
       IN (IF r[col] = NULL THEN 0 ELSE r[col]) + SumZeroed(rows \ {r}, col)

\* C23: in a user's tally of a division, total_top_attempts and
\* total_zone_attempts are the sums of the attempt counts over the user's
\* ascent rows on the division's problems, a null counted as 0 and the total
\* never null, whatever the rows' flags; total_tops and total_zones count the
\* rows whose flag is true, so attempts on a row without top make no top.
C23_TallySums ==
  podiumRows.called =>
    /\ \A i \in DOMAIN podiumRows.rows :
         LET r == podiumRows.rows[i]
             own == { a \in AscentsOf(r.division_id) : a.user_id = r.user_id }
         IN /\ r.total_top_attempts = SumZeroed(own, "top_attempts")
            /\ r.total_zone_attempts = SumZeroed(own, "zone_attempts")
            /\ r.total_top_attempts # NULL /\ r.total_zone_attempts # NULL
            /\ r.total_tops = Cardinality({ a \in own : a.topped })
            /\ r.total_zones = Cardinality({ a \in own : a.zone })
    /\ \A d \in divisions : \A a \in AscentsOf(d.id) :
         \E i \in DOMAIN podiumRows.rows :
           podiumRows.rows[i].division_id = d.id /\ podiumRows.rows[i].user_id = a.user_id

\* the tallies were computed with a user who has attempts on two rows and no
\* top, and a user whose rows carry a top and null attempt counts only
C23_Witness ==
  /\ podiumRows.called
  /\ \E i, j \in DOMAIN podiumRows.rows :
       /\ podiumRows.rows[i].total_tops = 0
       /\ podiumRows.rows[i].total_top_attempts = 2 * MaxAttempts
       /\ podiumRows.rows[j].total_tops > 0
       /\ podiumRows.rows[j].total_top_attempts = 0
       /\ podiumRows.rows[j].total_zone_attempts = 0
       /\ podiumRows.rows[i].division_id = podiumRows.rows[j].division_id

\* C24: a report filtered by a division of the competition has exactly one
\* entry, that of the division, and the entry (summary values, podium and
\* rank numbers) is the one the division has in the unfiltered report on the
\* same facts.
C24_FilterSameEntry ==
  [][ ( /\ req.pc = "summarised" /\ response'.status = 200
        /\ req.division_id # NULL /\ DivisionOf(req.division_id, req.id) ) =>
        /\ Len(response'.divisions) = 1
        /\ response'.divisions[1].division_id = req.division_id
        /\ \A s \in SummaryQuery(req.id, NULL), rows \in PodiumQuery(req.id, NULL) :
             \E i \in DOMAIN s : Combine(s, rows)[i] = response'.divisions[1] ]_vars

\* the row's division, when it has one, is a division of the row's competition
InScope(row) ==
  row.division_id # NULL =>
    \E d \in divisions : d.id = row.division_id /\ d.competition_id = row.competition_id

\* C25: after any sequence of API operations every problem and every
\* participant with a division references a division of its own competition;
\* so the podium function's division_problems, which joins on the division id
\* alone, gives each division of a competition the problems the summary query
\* counts for it, and nothing else.
C25_Scope ==
  /\ \A p \in problems : InScope(p)
  /\ \A cp \in competition_participants : InScope(cp)
  /\ \A c \in competitions :
       { <<dp.problem_id, dp.division_id>> : dp \in division_problems(c.id) }
         = { <<p.id, d.id>> :
               <<p, d>> \in { pd \in problems \X divisions :
                                /\ pd[2].competition_id = c.id
                                /\ pd[1].competition_id = c.id
                                /\ pd[1].division_id = pd[2].id } }

\* a request naming the other competition's division was answered 400 while a
\* problem and a participant with a division stand in two competitions
C25_Witness ==
  /\ response.status = 400
  /\ Cardinality(competitions) = MaxCompetitions + 1
  /\ \E p \in problems : p.division_id # NULL
  /\ \E cp \in competition_participants :
       cp.division_id # NULL /\ \E p \in problems : p.competition_id # cp.competition_id

\* C26: in a report computed on one state of the facts, for every division the
\* podium users are at most participant_count many, the tops and zones of the
\* podium entries sum to at most the division's totals, to exactly the totals
\* when every tallied user of the division has a rank within the podium, and a
\* division with a top has a podium.
C26_SummaryPodiumAgree ==
  [][ (req.pc = "summarised" /\ response'.status = 200) =>
        \A e \in Entries' :
          LET all == { r \in ranked(req.id) : r.division_id = e.division_id }
          IN /\ Cardinality(PodiumUsers(e)) <= e.participant_count
             /\ SumOver(e.podium, "total_tops") <= e.total_tops
             /\ SumOver(e.podium, "total_zones") <= e.total_zones
             /\ (\A r \in all : r.rank <= 3) =>
                  /\ SumOver(e.podium, "total_tops") = e.total_tops
                  /\ SumOver(e.podium, "total_zones") = e.total_zones
             /\ e.total_tops > 0 => e.podium # <<>> ]_vars

\* a report whose podium holds fewer tops than the division's total, a tallied
\* user with a top being ranked behind the podium
C26_Witness ==
  /\ response.status = 200
  /\ \E e \in Entries :
       /\ SumOver(e.podium, "total_tops") < e.total_tops
       /\ Len(e.podium) = 3
       /\ e.participant_count = MaxUsers

\* C27: in every division's podium the rank values are 1..k for some k <= 3,
\* none skipped and 1 present when the podium is not empty; the entries come
\* in non-decreasing rank, and by ascending display name inside one rank; and
\* no user has two entries.
C27_PodiumShape ==
  (response.status = 200 /\ response.competition # NULL) =>
    \A e \in Entries :
      LET n == Len(e.podium)
          ranks == { e.podium[i].rank : i \in 1..n }
      IN /\ \E k \in 0..3 : ranks = 1..k
         /\ \A i \in 1..(n - 1) :
              \/ e.podium[i].rank < e.podium[i + 1].rank
              \/ /\ e.podium[i].rank = e.podium[i + 1].rank
                 /\ e.podium[i].user_display_name <= e.podium[i + 1].user_display_name
         /\ \A i, j \in 1..n : e.podium[i].user_id = e.podium[j].user_id => i = j

\* a podium of four entries with the ranks 1, 2, 2, 3: a tie inside the podium
C27_Witness ==
  /\ response.status = 200
  /\ \E e \in Entries :
       /\ Len(e.podium) = 4
       /\ e.podium[2].rank = 2 /\ e.podium[3].rank = 2 /\ e.podium[4].rank = 3

\* C28: when a user logs a top on a problem of a division where the user had
\* no top (no row, or a row with topped = false), whatever attempt counts and
\* zone flag the logged ascent carries, the user's rank number among all
\* tallied users of the division does not increase and no other user's rank
\* number decreases.
C28_RankMonotone ==
  [][ \A u \in SignedIn, p \in problems, body \in ToppedBodies :
        ( /\ LogAscent(u, p.id, body)
          /\ ~\E a \in ascents : a.problem_id = p.id /\ a.user_id = u /\ a.topped ) =>
          \A r \in ranked(p.competition_id) : \A n \in ranked(p.competition_id)' :
            (r.division_id = p.division_id /\ n.division_id = p.division_id
             /\ r.user_id = n.user_id) =>
              IF r.user_id = u THEN n.rank <= r.rank ELSE n.rank >= r.rank ]_vars

\* the rows of the podium function for division d of competition id
RankedIn(id, d) == { r \in ranked(id) : r.division_id = d }

\* C29: the delete of a division, which may have problems with ascents,
\* deletes no problem and no ascent: the division's problems become unassigned,
\* their ascents count for no division (totals, participant_count, podium),
\* the division has no entry in the report, and the summary row and podium
\* rows of every other division of the competition are as before.
C29_DeleteKeepsProblems ==
  [][ (del.pc = "counted" /\ del'.pc = "idle") =>
        \A id \in {del.id}, gone \in {del.division_id} :
        LET orphans == { p.id : p \in { q \in problems : q.division_id = gone } }
        IN /\ { p.id : p \in problems' } = { p.id : p \in problems }
           /\ ascents' = ascents
           /\ \A p \in problems' :
                /\ p.id \in orphans => p.division_id = NULL
                /\ p.id \notin orphans => p \in problems
           /\ ~\E d \in divisions' : d.id = gone
           /\ \A d \in divisions' :
                /\ d \in divisions
                /\ ~\E a \in AscentsOf(d.id)' : a.problem_id \in orphans
                /\ d.competition_id = id =>
                     /\ SummaryRow(id, d)' = SummaryRow(id, d)
                     /\ RankedIn(id, d.id)' = RankedIn(id, d.id)
           /\ \A s \in SummaryQuery(id, NULL)' :
                ~\E i \in DOMAIN s : s[i].division_id = gone
           /\ RankedIn(id, gone)' = {} ]_vars

\* a report sent after the delete of a division whose problem has an ascent:
\* the problem is unassigned, the ascent is kept, one division is reported
C29_Witness ==
  /\ response.status = 200
  /\ Len(response.divisions) = MaxDivisions - 1
  /\ \E p \in problems : p.division_id = NULL /\ \E a \in ascents : a.problem_id = p.id
  /\ \E e \in Entries : e.podium # <<>>

\* C30: in the report tab, (a) once every request sent has been answered and
\* no failure is shown, the report held is the response to the last request,
\* the one sent for the selected filter; (b) loading is false only when no
\* request is outstanding; (c) the response of a request that is not the last
\* one never replaces the report of the last one.
C30_LatestReportShown ==
  /\ [](/\ (tab.sent > 0 /\ tab.pending = {} /\ tab.error = NULL) => tab.shown = tab.sent
        /\ (tab.sent > 0 /\ ~tab.loading) => tab.pending = {})
  /\ [][ \A r \in tab.pending :
           (ReportArrives(r) /\ tab.shown = tab.sent) => tab'.shown = tab.sent ]_vars

====
